---- MODULE Spec2Model ----
(***************************************************************************)
(* NetNodeGateway: the per-source sequence tracker                         *)
(* (src/src/gateway/sequence_tracker.cpp) and the statistics aggregator    *)
(* (src/src/gateway/stats_manager.cpp) as state machines.                  *)
(***************************************************************************)
EXTENDS Integers, FiniteSets, Sequences, TLC

(***************************************************************************)
(* Program constants.                                                      *)
(***************************************************************************)
\* A uint32_t (seq, next_expected, gap, age) is kept as its two 16-bit halves
\* [hi, lo], value hi * 2^16 + lo, because the model checker's integers end
\* at 2^31 - 1.  All arithmetic on them below is arithmetic modulo 2^32.
HALF == 65536

\* SequenceTracker::WINDOW_SIZE
WINDOW_SIZE == 64

\* types.h: the frame layout and the protocol's values
PROTOCOL_VERSION == 1

MsgType_PLOT == 1

MsgType_TRACK == 2

MsgType_HEARTBEAT == 3

MsgType_ENGAGEMENT == 4

FRAME_HEADER_SIZE == 18

FRAME_CRC_SIZE == 4

MAX_PAYLOAD_SIZE == 1024

(***************************************************************************)
(* Bounds of the model.                                                    *)
(***************************************************************************)
\* source ids passed to track / reset / record_* are 1..NumSrc
NumSrc == 2

\* the small sequence numbers fed are 0..MaxSeq
MaxSeq == 4

\* at most MaxCalls calls of track / reset when one source id is in use
MaxCalls == 6

\* at most MaxMultiCalls calls of track / reset when all of SrcIds are in use
MaxMultiCalls == 3

\* at most MaxStatCalls calls on one StatsManager
MaxStatCalls == 4

\* the gap sizes passed to record_gap are 0..MaxGap
MaxGap == 2

\* the threads that call one StatsManager at the same time
NumThreads == 2

\* at most MaxMtCalls calls made by those threads together
MaxMtCalls == 4

\* the threads that call one EventBus at the same time
NumBusThreads == 2

\* at most MaxSubs subscriptions are made on one EventBus
MaxSubs == 2

\* at most MaxBusCalls calls made on one EventBus, callbacks' calls included
MaxBusCalls == 4

\* a thread is in at most MaxDepth nested EventBus calls
MaxDepth == 2

\* the payloads passed to TcpFramer::encode have 0..MaxPayloadLen bytes
MaxPayloadLen == 1

\* at most MaxFrames frames and headers are sent to one TcpFramer
MaxFrames == 3

\* the connections made to one ControlNode are 1..NumClients
NumClients == 2

\* a peer sends at most MaxRequests request frames on its connection
MaxRequests == 2

\* at most MaxStops calls of ControlNode::stop, and of Gateway::stop
MaxStops == 2

\* the small payloads of the frames given to parse_frame have
\* 0..MaxFramePayload bytes
MaxFramePayload == 1

\* a buffer holds up to MaxExtra bytes after its frame
MaxExtra == 1

\* the gateway processes up to MaxGwFrames frames, of the sources
\* 1..NumGwSrc with the sequence numbers 0..MaxGwSeq
MaxGwFrames == 3

NumGwSrc == 1

MaxGwSeq == 3

\* the recorder gets up to MaxRecCalls calls; the recorded track frames
\* have the sequence numbers 0 and 2..MaxRecSeq; a replay pass makes up to
\* MaxReceives receive calls after an open
MaxRecCalls == 4

MaxRecSeq == 2

MaxReceives == 3

\* FaultInjector: frames in a batch given to apply, apply calls
MaxBatch == 2

MaxApply == 2

\* MeasurementGenerator: the objects given to a generate call, frames
\* generated in all
MaxObjects == 2

MaxEmitted == 4

SrcIds == 1..NumSrc

(***************************************************************************)
(* uint32_t                                                                *)
(***************************************************************************)
\* the uint32_t with value n, for 0 <= n < 2^31
U32Of(n) == [hi |-> n \div HALF, lo |-> n % HALF]

\* UINT32_MAX - n, for 0 <= n < 2^16
U32Top(n) == [hi |-> HALF - 1, lo |-> HALF - 1 - n]

\* U32Inc without the wrap: UINT32_MAX + 1 stays UINT32_MAX (a saturating or
\* wider-than-32-bit counter)
U32Inc_Saturating(x) ==
    IF x.lo = HALF - 1
    THEN (IF x.hi = HALF - 1 THEN x ELSE [hi |-> x.hi + 1, lo |-> 0])
    ELSE [hi |-> x.hi, lo |-> x.lo + 1]

\* x + 1 in uint32_t (wraps to 0)
U32Inc(x) ==
    IF x.lo = HALF - 1
    THEN [hi |-> (x.hi + 1) % HALF, lo |-> 0]
    ELSE [hi |-> x.hi, lo |-> x.lo + 1]

\* x - y in uint32_t (wraps)
U32Sub(x, y) ==
    IF x.lo >= y.lo
    THEN [hi |-> (x.hi - y.hi + HALF) % HALF, lo |-> x.lo - y.lo]
    ELSE [hi |-> (x.hi - y.hi - 1 + HALF) % HALF, lo |-> x.lo - y.lo + HALF]

\* x < y on uint32_t
U32Lt(x, y) == x.hi < y.hi \/ (x.hi = y.hi /\ x.lo < y.lo)

\* x <= n on uint32_t, for a small constant 0 <= n < 2^16
U32LeSmall(x, n) == x.hi = 0 /\ x.lo <= n

\* The sequence numbers fed to track: the small ones, one at the window's far
\* edge, and the two largest values of uint32_t (for the wrap of seq + 1).
Seqs == {U32Of(n) : n \in 0..MaxSeq} \cup {U32Of(WINDOW_SIZE), U32Top(1), U32Top(0)}

VARIABLES
    sources_,     \* SequenceTracker::sources_ : src_id -> SourceState (a partial map)
    seq_call,     \* the last call made on the tracker: [op, src_id, seq, had];
                  \* had: the source had an entry when the call was made
    seq_ev,       \* the SeqEvent the last track call returned
    observed,     \* history: per source, the seqs passed to track since its last reset
    counted,      \* history: per source, the seqs classified OK, GAP or REORDER since then
    first_seq,    \* history: per source, the set holding the seq that produced FIRST
    run_len,      \* history: per source, k when the calls since reset were 0,1,..,k-1; -1 otherwise
    calls         \* number of calls made on the tracker

VARIABLES
    global_,         \* StatsManager::global_ : GlobalStats
    stats_sources_,  \* StatsManager::sources_ : src_id -> SourceStats (a partial map)
    stat_call,       \* the last call made on the StatsManager: [op, src_id, dropped];
                     \* dropped: the number of source entries a reset removed
    health_ret,      \* the value the last get_health call returned
    stat_calls       \* number of calls made on the StatsManager

VARIABLES
    mutex_,    \* StatsManager::mutex_ : [writer, readers]; writer is the thread
               \* holding it exclusively (0: none), readers the threads sharing it
    mt_pc,     \* per thread: where it is in the method it called
    mt_op,     \* per thread: the call it is in, with its arguments (the
               \* locals of the call: gone when it returns)
    mt_tmp,    \* per thread: the value its counter++ loaded
    mt_done,   \* history: per source, the record_rx calls that returned and
               \* the gap sizes of the record_gap calls that returned
    mt_calls   \* number of calls the threads have made

trackerVars == <<sources_, seq_call, seq_ev, observed, counted, first_seq, run_len, calls>>

statsVars == <<global_, stats_sources_, stat_call, health_ret, stat_calls>>

VARIABLES
    bus_mutex_,  \* EventBus::mutex_ : the thread holding it (0: none)
    subs_,       \* EventBus::subs_ : the sequence of Subscriptions
    next_id_,    \* EventBus::next_id_
    bus_stack,   \* per thread: the EventBus calls it is in, outermost first
    bus_gone,    \* history: the subscriptions that unsubscribe calls removed
    bus_done,    \* history: the last publish call that returned, and its thread
    bus_calls    \* number of calls made on the bus

VARIABLES
    buffer_,        \* TcpFramer::buffer_ : the bytes fed and not yet extracted
    ready_frames_,  \* TcpFramer::ready_frames_ : the payloads extracted, oldest first
    wire,           \* the bytes sent to the framer and not yet fed
    fr_sent,        \* history: the payloads whose encode() was put on the wire
    fr_popped,      \* history: the payloads pop_frame returned
    fr_clean,       \* history: nothing but encode(p) was put on the wire
    fr_kept,        \* history: the length of the ready queue when feed last
                    \* discarded the buffer; -1 when it never did
    fr_sends        \* number of frames and headers sent

VARIABLES
    listen_fd_,         \* ControlNode::listen_fd_ : "open" or "closed" (-1)
    node_running_,      \* ControlNode::running_
    node_should_stop_,  \* ControlNode::should_stop_
    clients_mutex_,     \* ControlNode::clients_mutex_ : the thread holding it
    client_threads_,    \* ControlNode::client_threads_ : the clients whose thread is in it
    client_fds_,        \* ControlNode::client_fds_ : the clients whose fd is in it
    main_pc,            \* where the thread calling start() and stop() is
    accept_pc,          \* where the accept thread is ("none": not started)
    accepted,           \* accept_loop's client_fd between accept() and the push
    client_pc,          \* per client: where its thread is ("none": not started)
    fd_open,            \* per client: the node's fd of the connection is open
    backlog,            \* the connections made and not yet accepted
    peer_closed,        \* per client: the peer has closed the connection
    sock_in,            \* per client: the request frames sent and not yet read
    framer_ready,       \* per client: the frames in its TcpFramer's ready queue
    command,            \* per client: client_loop's command while handler_.handle
                        \* runs on it ("": none)
    requests,           \* history: per client, the request frames read
    responses,          \* history: per client, the response frames sent
    stop_calls,         \* number of stop() calls made
    stops_returned      \* the stop() calls that returned, in order: what each did

VARIABLES
    gw_running_,      \* Gateway::running_
    gw_should_stop_,  \* Gateway::should_stop_
    gw_pc,            \* where the thread calling run() is
    gw_stops,         \* the Gateway::stop() calls made, in order: the value each found in should_stop_
    gw_run            \* history of the run() call last entered: the frames counted
                      \* at its entry, the frames it gave to process_frame,
                      \* whether stop() was called since its entry, whether
                      \* it has returned

mtVars == <<mutex_, mt_pc, mt_op, mt_tmp, mt_done, mt_calls>>

busVars == <<bus_mutex_, subs_, next_id_, bus_stack, bus_gone, bus_done, bus_calls>>

framerVars ==
    <<buffer_, ready_frames_, wire, fr_sent, fr_popped, fr_clean, fr_kept, fr_sends>>

nodeVars ==
    <<listen_fd_, node_running_, node_should_stop_, clients_mutex_, client_threads_,
      client_fds_, main_pc, accept_pc, accepted, client_pc, fd_open, backlog,
      peer_closed, sock_in, framer_ready, command, requests, responses,
      stop_calls, stops_returned>>

gwVars == <<gw_running_, gw_should_stop_, gw_pc, gw_stops, gw_run>>

VARIABLES
    crc_enabled_,   \* CommandHandler::crc_enabled_ of ControlNode::handler_
    config_,        \* CommandHandler::config_ of ControlNode::handler_ (a partial map)
    handle_ret      \* the response the last CommandHandler::handle call returned

handlerVars == <<crc_enabled_, config_, handle_ret>>

VARIABLES
    parse_buf,          \* the buffer of the last parse_frame call
    parse_crc_enabled,  \* its crc_enabled
    parse_ret           \* the ParseError it returned and the ParsedFrame it left

parseVars == <<parse_buf, parse_crc_enabled, parse_ret>>

VARIABLES
    gw_config_,     \* Gateway::config_: crc_enabled, record_enabled, replay_path
    gw_tracker_,    \* Gateway::tracker_: the SourceState of every source seen
    gw_stats_,      \* Gateway::stats_: its global_ and its sources_
    gw_events,      \* the events the last process_frame call published, in order
    gw_call,        \* the last process_frame call: frame, timestamp, ParseError,
                    \* SeqEvent and the crc_enabled given to parse_frame
    gw_frames       \* the number of process_frame calls made

procVars == <<gw_config_, gw_tracker_, gw_stats_, gw_events, gw_call, gw_frames>>

VARIABLES
    rec_file_,      \* FrameRecorder::file_: is_open() and good()
    frame_count_,   \* FrameRecorder::frame_count_
    disk,           \* the file at the record path: whether it exists, its bytes
    rec_call,       \* the last call on the recorder and what it returned
    rec_true,       \* record calls that returned true since the last open call
    rec_frames,     \* the frames whose record returned true since the file
                    \* was last truncated
    rec_calls       \* the number of calls made on the recorder

recVars == <<rec_file_, frame_count_, disk, rec_call, rec_true, rec_frames, rec_calls>>

VARIABLES
    replay,         \* the ReplayFrameSource of each pass: is_open(), the read
                    \* position of file_, speed_multiplier_, frames_replayed_,
                    \* done_, first_frame_
    replay_buf,     \* buf as the last receive of each pass left it
    replay_ret,     \* what the last receive of each pass returned
    replay_out,     \* the buffers each pass got from receive calls returning
                    \* true since its last open
    replay_calls,   \* the receive calls of each pass since its last open
    pass_tracker,   \* the SequenceTracker of each pass
    pass_stats      \* the StatsManager of each pass

replayVars ==
    <<replay, replay_buf, replay_ret, replay_out, replay_calls, pass_tracker,
      pass_stats>>

VARIABLES
    fi_config_,     \* FaultInjector::config_
    last_stats_,    \* FaultInjector::last_stats_
    fi_frames,      \* the caller's vector that apply works on
    fi_pc,          \* the stage apply is about to run ("idle": not in apply)
    fi_call,        \* history of the last apply call: the batch it was given,
                    \* the batch before its reorder stage, last_stats_ before it
    fi_calls        \* the number of apply calls made

faultVars == <<fi_config_, last_stats_, fi_frames, fi_pc, fi_call, fi_calls>>

VARIABLES
    mg,             \* the MeasurementGenerator: src_id_, seq_, plot_id_,
                    \* track_update_counts_
    mg_call,        \* history of the last generate call: which it was, the
                    \* objects it was given, the frames it returned
    feed_queue,     \* the frames generated and not yet fed, oldest first
    feed_tracker,   \* the SequenceTracker the frames are fed to
    feed_stats,     \* the StatsManager the frames are fed to
    feed_results    \* for each frame fed, in order: the SeqResult (or the
                    \* ParseError), the msg_type and the seq parsed

genVars == <<mg, mg_call, feed_queue, feed_tracker, feed_stats, feed_results>>

\* the variables of the sensor simulator
simVars == <<faultVars, genVars>>

\* the variables of the frame path: parser, gateway processing, recorder,
\* replay
pipeVars == <<parseVars, procVars, recVars, replayVars, simVars>>

vars ==
    <<trackerVars, statsVars, mtVars, busVars, framerVars, nodeVars, gwVars,
      handlerVars, pipeVars>>

\* the variables the tracker's operations leave alone
notTrackerVars ==
    <<statsVars, mtVars, busVars, framerVars, nodeVars, gwVars, handlerVars,
      pipeVars>>

\* the variables the FaultInjector's operations leave alone
notFaultVars ==
    <<trackerVars, statsVars, mtVars, busVars, framerVars, nodeVars, gwVars,
      handlerVars, parseVars, procVars, recVars, replayVars, genVars>>

\* the variables the MeasurementGenerator and the loop fed by it leave alone
notGenVars ==
    <<trackerVars, statsVars, mtVars, busVars, framerVars, nodeVars, gwVars,
      handlerVars, parseVars, procVars, recVars, replayVars, faultVars>>

\* the variables the StatsManager's operations leave alone
notStatsVars ==
    <<trackerVars, mtVars, busVars, framerVars, nodeVars, gwVars, handlerVars,
      pipeVars>>

(***************************************************************************)
(* SequenceTracker                                                         *)
(***************************************************************************)
\* SourceState{} as value-initialised by sources_[src_id]
SourceState0 == [next_expected |-> U32Of(0), initialized |-> FALSE, seen_window |-> {}]

\* sources_[src_id]: the entry, default-constructed when absent
Entry(src_id) ==
    IF src_id \in DOMAIN sources_ THEN sources_[src_id] ELSE SourceState0

\* std::bitset<64>::operator<<= : bit i moves to bit i + k, bits past 63 are lost
ShiftLeft(w, k) == {i + k : i \in w} \cap (0..(WINDOW_SIZE - 1))

SeqEvent(result, src_id, expected_seq, actual_seq, gap_size) ==
    [result |-> result, src_id |-> src_id, expected_seq |-> expected_seq,
     actual_seq |-> actual_seq, gap_size |-> gap_size]

\* TrackFirst with next_expected = seq in place of seq + 1
TrackFirst_NoAdvance(s, src_id, seq) ==
    [st |-> [next_expected |-> seq, initialized |-> TRUE, seen_window |-> {}],
     ev |-> SeqEvent("FIRST", src_id, U32Of(0), seq, U32Of(0))]

\* TrackFirst that also marks the first sequence number as seen (bit 63)
TrackFirst_MarksSeen(s, src_id, seq) ==
    [st |-> [next_expected |-> U32Inc(seq), initialized |-> TRUE,
             seen_window |-> {WINDOW_SIZE - 1}],
     ev |-> SeqEvent("FIRST", src_id, U32Of(0), seq, U32Of(0))]

\* the !s.initialized branch of track
TrackFirst(s, src_id, seq) ==
    [st |-> [next_expected |-> U32Inc(seq), initialized |-> TRUE, seen_window |-> {}],
     ev |-> SeqEvent("FIRST", src_id, U32Of(0), seq, U32Of(0))]

\* the seq == s.next_expected branch of track
TrackOk(s, src_id, seq) ==
    [st |-> [s EXCEPT !.seen_window = ShiftLeft(s.seen_window, 1) \cup {WINDOW_SIZE - 1},
                      !.next_expected = U32Inc(seq)],
     ev |-> SeqEvent("OK", src_id, seq, seq, U32Of(0))]

\* the window after the shift of the gap branch: gap + 1 is computed in uint32_t
GapShift(w, gap) ==
    LET n == U32Inc(gap)
    IN  IF ~U32LeSmall(n, WINDOW_SIZE - 1) THEN {} ELSE ShiftLeft(w, n.lo)

\* TrackGap reporting seq - next_expected + 1 as the gap size
TrackGap_CountsInclusive(s, src_id, seq) ==
    LET gap == U32Sub(seq, s.next_expected)
    IN  [st |-> [s EXCEPT !.seen_window = GapShift(s.seen_window, gap) \cup {WINDOW_SIZE - 1},
                          !.next_expected = U32Inc(seq)],
         ev |-> SeqEvent("GAP", src_id, U32Sub(seq, gap), seq, U32Inc(gap))]

\* the seq > s.next_expected branch of track
TrackGap(s, src_id, seq) ==
    LET gap == U32Sub(seq, s.next_expected)
    IN  [st |-> [s EXCEPT !.seen_window = GapShift(s.seen_window, gap) \cup {WINDOW_SIZE - 1},
                          !.next_expected = U32Inc(seq)],
         ev |-> SeqEvent("GAP", src_id, U32Sub(seq, gap), seq, gap)]

\* TrackOld without the age <= WINDOW_SIZE test: the bit index is taken
\* modulo the window size
TrackOld_NoWindowCheck(s, src_id, seq) ==
    LET age == U32Sub(s.next_expected, seq)
        bit_idx == (WINDOW_SIZE - (age.lo % WINDOW_SIZE)) % WINDOW_SIZE
    IN  IF bit_idx \in s.seen_window
        THEN [st |-> s,
              ev |-> SeqEvent("DUPLICATE", src_id, s.next_expected, seq, U32Of(0))]
        ELSE [st |-> [s EXCEPT !.seen_window = @ \cup {bit_idx}],
              ev |-> SeqEvent("REORDER", src_id, s.next_expected, seq, U32Of(0))]

\* the seq < s.next_expected tail of track
TrackOld(s, src_id, seq) ==
    LET age == U32Sub(s.next_expected, seq)
        bit_idx == WINDOW_SIZE - age.lo
    IN  IF U32LeSmall(age, WINDOW_SIZE)
        THEN IF bit_idx \in s.seen_window
             THEN [st |-> s,
                   ev |-> SeqEvent("DUPLICATE", src_id, s.next_expected, seq, U32Of(0))]
             ELSE [st |-> [s EXCEPT !.seen_window = @ \cup {bit_idx}],
                   ev |-> SeqEvent("REORDER", src_id, s.next_expected, seq, U32Of(0))]
        ELSE [st |-> s, ev |-> SeqEvent("REORDER", src_id, s.next_expected, seq, U32Of(0))]

\* SequenceTracker::track on the entry s of src_id: the new entry and the event
TrackStep(s, src_id, seq) ==
    IF ~s.initialized THEN TrackFirst(s, src_id, seq)
    ELSE IF seq = s.next_expected THEN TrackOk(s, src_id, seq)
    ELSE IF U32Lt(s.next_expected, seq) THEN TrackGap(s, src_id, seq)
    ELSE TrackOld(s, src_id, seq)

\* std::size_t source_count() const
SequenceTracker_source_count == Cardinality(DOMAIN sources_)

NoEvent == SeqEvent("NONE", 0, U32Of(0), U32Of(0), U32Of(0))

TrackerInit ==
    /\ sources_ = <<>>
    /\ seq_call = [op |-> "none", src_id |-> 0, seq |-> U32Of(0), had |-> FALSE]
    /\ seq_ev = NoEvent
    /\ observed = [i \in SrcIds |-> {}]
    /\ counted = [i \in SrcIds |-> {}]
    /\ first_seq = [i \in SrcIds |-> {}]
    /\ run_len = [i \in SrcIds |-> 0]
    /\ calls = 0

\* SeqEvent track(uint16_t src_id, uint32_t seq)
SequenceTracker_track(src_id, seq) ==
    LET r == TrackStep(Entry(src_id), src_id, seq)
    IN  /\ calls' = calls + 1
        /\ sources_' = [i \in DOMAIN sources_ \cup {src_id} |->
                            IF i = src_id THEN r.st ELSE sources_[i]]
        /\ seq_call' = [op |-> "track", src_id |-> src_id, seq |-> seq,
                        had |-> src_id \in DOMAIN sources_]
        /\ seq_ev' = r.ev
        /\ observed' = [observed EXCEPT ![src_id] = @ \cup {seq}]
        /\ counted' = [counted EXCEPT ![src_id] =
                           IF r.ev.result \in {"OK", "GAP", "REORDER"}
                           THEN @ \cup {seq} ELSE @]
        /\ first_seq' = [first_seq EXCEPT ![src_id] =
                             IF r.ev.result = "FIRST" THEN {seq} ELSE @]
        /\ run_len' = [run_len EXCEPT ![src_id] =
                           IF @ >= 0 /\ U32Of(@) = seq THEN @ + 1 ELSE -1]
        /\ UNCHANGED notTrackerVars

\* reset(src_id) that clears the whole map, as reset_all does
SequenceTracker_reset_ClearsAll(src_id) ==
    /\ calls' = calls + 1
    /\ sources_' = <<>>
    /\ seq_call' = [op |-> "reset", src_id |-> src_id, seq |-> U32Of(0),
                    had |-> src_id \in DOMAIN sources_]
    /\ seq_ev' = NoEvent
    /\ observed' = [observed EXCEPT ![src_id] = {}]
    /\ counted' = [counted EXCEPT ![src_id] = {}]
    /\ first_seq' = [first_seq EXCEPT ![src_id] = {}]
    /\ run_len' = [run_len EXCEPT ![src_id] = 0]
    /\ UNCHANGED notTrackerVars

\* void reset(uint16_t src_id)
SequenceTracker_reset(src_id) ==
    /\ calls' = calls + 1
    /\ sources_' = [i \in DOMAIN sources_ \ {src_id} |-> sources_[i]]
    /\ seq_call' = [op |-> "reset", src_id |-> src_id, seq |-> U32Of(0),
                    had |-> src_id \in DOMAIN sources_]
    /\ seq_ev' = NoEvent
    /\ observed' = [observed EXCEPT ![src_id] = {}]
    /\ counted' = [counted EXCEPT ![src_id] = {}]
    /\ first_seq' = [first_seq EXCEPT ![src_id] = {}]
    /\ run_len' = [run_len EXCEPT ![src_id] = 0]
    /\ UNCHANGED notTrackerVars

\* void reset_all()
SequenceTracker_reset_all ==
    /\ calls' = calls + 1
    /\ sources_' = <<>>
    /\ seq_call' = [op |-> "reset_all", src_id |-> 0, seq |-> U32Of(0), had |-> FALSE]
    /\ seq_ev' = NoEvent
    /\ observed' = [i \in SrcIds |-> {}]
    /\ counted' = [i \in SrcIds |-> {}]
    /\ first_seq' = [i \in SrcIds |-> {}]
    /\ run_len' = [i \in SrcIds |-> 0]
    /\ UNCHANGED notTrackerVars

TrackAny == \E src_id \in SrcIds, seq \in Seqs : SequenceTracker_track(src_id, seq)

ResetAny == \E src_id \in SrcIds : SequenceTracker_reset(src_id)

\* the same calls with source id 1 only
TrackOne == \E seq \in Seqs : SequenceTracker_track(1, seq)

ResetOne == SequenceTracker_reset(1)

(***************************************************************************)
(* StatsManager                                                            *)
(* The uint64_t counters are plain integers: a counter grows by at most    *)
(* MaxGap per call, so it stays far below 2^64 within MaxStatCalls calls.  *)
(***************************************************************************)
\* GlobalStats{}
GlobalStats0 ==
    [rx_total |-> 0, malformed_total |-> 0, gap_total |-> 0,
     reorder_total |-> 0, duplicate_total |-> 0, crc_fail_total |-> 0]

\* SourceStats{} with src_id set, as get_or_create_source makes it
SourceStats0(src_id) ==
    [src_id |-> src_id, rx_count |-> 0, malformed |-> 0, gaps |-> 0, reorders |-> 0,
     duplicates |-> 0, last_seq |-> U32Of(0), last_ts_ns |-> 0]

\* get_or_create_source(src_id): the entry of src_id, created when absent
get_or_create_source(src_id) ==
    IF src_id \in DOMAIN stats_sources_ THEN stats_sources_[src_id] ELSE SourceStats0(src_id)

\* sources_ with the entry of src_id replaced by s
PutSource(src_id, s) ==
    [i \in DOMAIN stats_sources_ \cup {src_id} |->
        IF i = src_id THEN s ELSE stats_sources_[i]]

\* the (seq, ts_ns) pairs passed to record_rx
RxInputs == {<<U32Of(0), 1000>>, <<U32Top(0), 2000>>}

GapSizes == 0..MaxGap

StatCall(op, src_id) ==
    /\ stat_calls' = stat_calls + 1
    /\ stat_call' = [op |-> op, src_id |-> src_id, dropped |-> 0]
    /\ UNCHANGED health_ret
    /\ UNCHANGED notStatsVars

StatsInit ==
    /\ global_ = GlobalStats0
    /\ stats_sources_ = <<>>
    /\ stat_call = [op |-> "none", src_id |-> 0, dropped |-> 0]
    /\ health_ret = "NONE"
    /\ stat_calls = 0

\* void record_rx(uint16_t src_id, uint32_t seq, uint64_t ts_ns)
StatsManager_record_rx(src_id, seq, ts_ns) ==
    /\ global_' = [global_ EXCEPT !.rx_total = @ + 1]
    /\ stats_sources_' = PutSource(src_id,
           [get_or_create_source(src_id) EXCEPT !.rx_count = @ + 1,
                                                !.last_seq = seq,
                                                !.last_ts_ns = ts_ns])
    /\ StatCall("record_rx", src_id)

\* void record_malformed(uint16_t src_id)
StatsManager_record_malformed(src_id) ==
    /\ global_' = [global_ EXCEPT !.malformed_total = @ + 1]
    /\ stats_sources_' = PutSource(src_id,
           [get_or_create_source(src_id) EXCEPT !.malformed = @ + 1])
    /\ StatCall("record_malformed", src_id)

\* record_gap that stores the gap size in place of adding it
StatsManager_record_gap_Assigns(src_id, gap_size) ==
    /\ global_' = [global_ EXCEPT !.gap_total = gap_size]
    /\ stats_sources_' = PutSource(src_id,
           [get_or_create_source(src_id) EXCEPT !.gaps = gap_size])
    /\ StatCall("record_gap", src_id)

\* void record_gap(uint16_t src_id, uint32_t gap_size)
StatsManager_record_gap(src_id, gap_size) ==
    /\ global_' = [global_ EXCEPT !.gap_total = @ + gap_size]
    /\ stats_sources_' = PutSource(src_id,
           [get_or_create_source(src_id) EXCEPT !.gaps = @ + gap_size])
    /\ StatCall("record_gap", src_id)

\* void record_reorder(uint16_t src_id)
StatsManager_record_reorder(src_id) ==
    /\ global_' = [global_ EXCEPT !.reorder_total = @ + 1]
    /\ stats_sources_' = PutSource(src_id,
           [get_or_create_source(src_id) EXCEPT !.reorders = @ + 1])
    /\ StatCall("record_reorder", src_id)

\* void record_duplicate(uint16_t src_id)
StatsManager_record_duplicate(src_id) ==
    /\ global_' = [global_ EXCEPT !.duplicate_total = @ + 1]
    /\ stats_sources_' = PutSource(src_id,
           [get_or_create_source(src_id) EXCEPT !.duplicates = @ + 1])
    /\ StatCall("record_duplicate", src_id)

\* record_crc_fail that counts the frame as a malformed frame in the global
\* counters too
StatsManager_record_crc_fail_CountsMalformed(src_id) ==
    /\ global_' = [global_ EXCEPT !.crc_fail_total = @ + 1,
                                  !.malformed_total = @ + 1]
    /\ stats_sources_' = PutSource(src_id,
           [get_or_create_source(src_id) EXCEPT !.malformed = @ + 1])
    /\ StatCall("record_crc_fail", src_id)

\* void record_crc_fail(uint16_t src_id)
StatsManager_record_crc_fail(src_id) ==
    /\ global_' = [global_ EXCEPT !.crc_fail_total = @ + 1]
    /\ stats_sources_' = PutSource(src_id,
           [get_or_create_source(src_id) EXCEPT !.malformed = @ + 1])
    /\ StatCall("record_crc_fail", src_id)

\* GlobalStats get_global_stats() const
StatsManager_get_global_stats == global_

\* std::vector<SourceStats> get_all_source_stats() const, as the set of its elements
StatsManager_get_all_source_stats == {stats_sources_[i] : i \in DOMAIN stats_sources_}

\* get_health that tests the DEGRADED condition before the ERROR condition
get_health_DegradedFirst ==
    IF global_.gap_total > 0 \/ global_.reorder_total > 0 THEN "DEGRADED"
    ELSE IF global_.malformed_total > 0 \/ global_.crc_fail_total > 0 THEN "ERROR"
    ELSE "OK"

\* the value of HealthState get_health() const
get_health ==
    IF global_.malformed_total > 0 \/ global_.crc_fail_total > 0 THEN "ERROR"
    ELSE IF global_.gap_total > 0 \/ global_.reorder_total > 0 THEN "DEGRADED"
    ELSE "OK"

\* a call of get_health()
StatsManager_get_health ==
    /\ health_ret' = get_health
    /\ stat_calls' = stat_calls + 1
    /\ stat_call' = [op |-> "get_health", src_id |-> 0, dropped |-> 0]
    /\ UNCHANGED <<global_, stats_sources_>>
    /\ UNCHANGED notStatsVars

\* reset that zeroes the global counters and keeps the source entries
StatsManager_reset_KeepsSources ==
    /\ global_' = GlobalStats0
    /\ stats_sources_' = stats_sources_
    /\ stat_calls' = stat_calls + 1
    /\ stat_call' = [op |-> "reset", src_id |-> 0,
                     dropped |-> Cardinality(DOMAIN stats_sources_)]
    /\ UNCHANGED health_ret
    /\ UNCHANGED notStatsVars

\* void reset()
StatsManager_reset ==
    /\ global_' = GlobalStats0
    /\ stats_sources_' = <<>>
    /\ stat_calls' = stat_calls + 1
    /\ stat_call' = [op |-> "reset", src_id |-> 0,
                     dropped |-> Cardinality(DOMAIN stats_sources_)]
    /\ UNCHANGED health_ret
    /\ UNCHANGED notStatsVars

RecordRx ==
    \E src_id \in SrcIds, in \in RxInputs :
        StatsManager_record_rx(src_id, in[1], in[2])

RecordMalformed == \E src_id \in SrcIds : StatsManager_record_malformed(src_id)

RecordGap ==
    \E src_id \in SrcIds, gap_size \in GapSizes : StatsManager_record_gap(src_id, gap_size)

RecordReorder == \E src_id \in SrcIds : StatsManager_record_reorder(src_id)

RecordDuplicate == \E src_id \in SrcIds : StatsManager_record_duplicate(src_id)

RecordCrcFail == \E src_id \in SrcIds : StatsManager_record_crc_fail(src_id)

(***************************************************************************)
(* StatsManager called from several threads                                *)
(* Every method takes mutex_ (a std::shared_mutex) for its whole body: the *)
(* record_* methods with std::unique_lock, the getters with                *)
(* std::shared_lock.  A thread's call is followed statement by statement;  *)
(* counter++ on the plain uint64_t is a load and a store.                  *)
(***************************************************************************)
Threads == 1..NumThreads

\* the mutators the threads call, each with the global counter and the
\* per-source counter it adds to
MtMutators == {"record_rx", "record_gap"}

MtReaders == {"get_global_stats", "get_all_source_stats"}

GlobalCounterOf(op) == IF op = "record_rx" THEN "rx_total" ELSE "gap_total"

\* the amount the call adds to its two counters
AmountOf(o) == IF o.op = "record_rx" THEN 1 ELSE o.gap_size

NoCall == [op |-> "none", src_id |-> 0, seq |-> U32Of(0), ts_ns |-> 0, gap_size |-> 0]

MtCalls ==
    {[op |-> "record_rx", src_id |-> i, seq |-> in[1], ts_ns |-> in[2], gap_size |-> 0] :
        i \in SrcIds, in \in RxInputs}
    \cup
    {[op |-> "record_gap", src_id |-> i, seq |-> U32Of(0), ts_ns |-> 0, gap_size |-> g] :
        i \in SrcIds, g \in GapSizes \ {0}}

\* the pc values at which a thread is inside the body of a mutator
InMutator == {"locked", "loaded", "stored"}

MtInit ==
    /\ mutex_ = [writer |-> 0, readers |-> {}]
    /\ mt_pc = [t \in Threads |-> "idle"]
    /\ mt_op = [t \in Threads |-> NoCall]
    /\ mt_tmp = [t \in Threads |-> 0]
    /\ mt_done = [i \in SrcIds |-> [rx |-> 0, gaps |-> 0]]
    /\ mt_calls = 0

\* std::unique_lock lock(mutex_) that takes the mutex in shared mode
unique_lock_Shared(t) ==
    /\ mutex_.writer = 0
    /\ mutex_' = [mutex_ EXCEPT !.readers = @ \cup {t}]

\* std::unique_lock lock(mutex_): waits until no thread holds the mutex
unique_lock(t) ==
    /\ mutex_.writer = 0
    /\ mutex_.readers = {}
    /\ mutex_' = [mutex_ EXCEPT !.writer = t]

\* std::shared_lock lock(mutex_): waits until no thread holds it exclusively
shared_lock(t) ==
    /\ mutex_.writer = 0
    /\ mutex_' = [mutex_ EXCEPT !.readers = @ \cup {t}]

\* the lock's destructor at the end of the method
unlock(t) ==
    mutex_' = [writer |-> IF mutex_.writer = t THEN 0 ELSE mutex_.writer,
               readers |-> mutex_.readers \ {t}]

\* a thread enters record_rx / record_gap and takes the lock
MtEnterMutator(t) ==
    /\ mt_pc[t] = "idle"
    /\ mt_calls < MaxMtCalls
    /\ unique_lock(t)
    /\ \E o \in MtCalls : mt_op' = [mt_op EXCEPT ![t] = o]
    /\ mt_pc' = [mt_pc EXCEPT ![t] = "locked"]
    /\ mt_calls' = mt_calls + 1
    /\ UNCHANGED <<global_, stats_sources_, mt_tmp, mt_done>>
    /\ UNCHANGED <<stat_call, health_ret, stat_calls, trackerVars, busVars, framerVars, nodeVars, gwVars>>
    /\ UNCHANGED <<handlerVars, pipeVars>>

\* global_.counter++ / += gap_size, first half: the load
MtLoadGlobal(t) ==
    /\ mt_pc[t] = "locked"
    /\ mt_tmp' = [mt_tmp EXCEPT ![t] = global_[GlobalCounterOf(mt_op[t].op)]]
    /\ mt_pc' = [mt_pc EXCEPT ![t] = "loaded"]
    /\ UNCHANGED <<global_, stats_sources_, mutex_, mt_op, mt_done, mt_calls>>
    /\ UNCHANGED <<stat_call, health_ret, stat_calls, trackerVars, busVars, framerVars, nodeVars, gwVars>>
    /\ UNCHANGED <<handlerVars, pipeVars>>

\* second half: the store
MtStoreGlobal(t) ==
    /\ mt_pc[t] = "loaded"
    /\ global_' = [global_ EXCEPT ![GlobalCounterOf(mt_op[t].op)] =
                                      mt_tmp[t] + AmountOf(mt_op[t])]
    /\ mt_pc' = [mt_pc EXCEPT ![t] = "stored"]
    /\ UNCHANGED <<stats_sources_, mutex_, mt_op, mt_tmp, mt_done, mt_calls>>
    /\ UNCHANGED <<stat_call, health_ret, stat_calls, trackerVars, busVars, framerVars, nodeVars, gwVars>>
    /\ UNCHANGED <<handlerVars, pipeVars>>

\* auto& s = get_or_create_source(src_id); the per-source update; return
MtUpdateSource(t) ==
    /\ mt_pc[t] = "stored"
    /\ LET o == mt_op[t]
           s == get_or_create_source(o.src_id)
       IN  /\ stats_sources_' = PutSource(o.src_id,
                  IF o.op = "record_rx"
                  THEN [s EXCEPT !.rx_count = @ + 1, !.last_seq = o.seq,
                                 !.last_ts_ns = o.ts_ns]
                  ELSE [s EXCEPT !.gaps = @ + o.gap_size])
           /\ mt_done' = [mt_done EXCEPT ![o.src_id] =
                  IF o.op = "record_rx" THEN [@ EXCEPT !.rx = @ + 1]
                                        ELSE [@ EXCEPT !.gaps = @ + o.gap_size]]
    /\ unlock(t)
    /\ mt_pc' = [mt_pc EXCEPT ![t] = "idle"]
    /\ mt_op' = [mt_op EXCEPT ![t] = NoCall]
    /\ mt_tmp' = [mt_tmp EXCEPT ![t] = 0]
    /\ UNCHANGED <<global_, mt_calls>>
    /\ UNCHANGED <<stat_call, health_ret, stat_calls, trackerVars, busVars, framerVars, nodeVars, gwVars>>
    /\ UNCHANGED <<handlerVars, pipeVars>>

\* a thread enters get_global_stats / get_all_source_stats and takes the lock
MtEnterReader(t) ==
    /\ mt_pc[t] = "idle"
    /\ mt_calls < MaxMtCalls
    /\ shared_lock(t)
    /\ \E op \in MtReaders : mt_op' = [mt_op EXCEPT ![t] = [NoCall EXCEPT !.op = op]]
    /\ mt_pc' = [mt_pc EXCEPT ![t] = "reading"]
    /\ mt_calls' = mt_calls + 1
    /\ UNCHANGED <<global_, stats_sources_, mt_tmp, mt_done>>
    /\ UNCHANGED <<stat_call, health_ret, stat_calls, trackerVars, busVars, framerVars, nodeVars, gwVars>>
    /\ UNCHANGED <<handlerVars, pipeVars>>

\* return global_; / return the vector of entries: the copy is made, the lock
\* is released
MtReturnReader(t) ==
    /\ mt_pc[t] = "reading"
    /\ unlock(t)
    /\ mt_pc' = [mt_pc EXCEPT ![t] = "idle"]
    /\ mt_op' = [mt_op EXCEPT ![t] = NoCall]
    /\ UNCHANGED <<global_, stats_sources_, mt_tmp, mt_done, mt_calls>>
    /\ UNCHANGED <<stat_call, health_ret, stat_calls, trackerVars, busVars, framerVars, nodeVars, gwVars>>
    /\ UNCHANGED <<handlerVars, pipeVars>>

(***************************************************************************)
(* EventBus                                                                *)
(* Each thread has a stack of the EventBus calls it is in: a callback that *)
(* publish invokes may itself call subscribe, subscribe_all, unsubscribe   *)
(* or publish on the same bus.  subscribe, subscribe_all and unsubscribe   *)
(* hold mutex_ for their whole body and are one step; publish is followed  *)
(* through its locked copy, the release, and one step per callback.        *)
(***************************************************************************)
BusThreads == 1..NumBusThreads

\* the EventCategory values used (two of the seven)
Categories == {"TRACKING", "NETWORK"}

\* struct Subscription, without the callback object: the callback of a
\* subscription is identified by the subscription's id
Subscription(id, category, all_categories) ==
    [id |-> id, category |-> category, all_categories |-> all_categories]

\* a call in progress: its arguments and locals.  pc of a publish: "enter"
\* (before the lock), "locked" (to_call filled, mutex_ held), "calling" (in
\* the loop over to_call), "in_cb" (a callback is running and has called the
\* bus).  at_call, called, gone are history: subs_ when the copy was made,
\* the callbacks invoked so far with the invoking thread, and the
\* subscriptions already unsubscribed when the call was made.
Frame(op, category, id, gone) ==
    [op |-> op, pc |-> "enter", category |-> category, id |-> id,
     to_call |-> <<>>, at_call |-> <<>>, called |-> <<>>, gone |-> gone]

NoFrame == Frame("none", "TRACKING", 0, {})

\* the subscribe and subscribe_all calls made so far, those in progress included
SubscribeCalls ==
    (next_id_ - 1) +
    Cardinality({p \in BusThreads \X (1..MaxDepth) :
                    /\ p[2] <= Len(bus_stack[p[1]])
                    /\ bus_stack[p[1]][p[2]].op \in {"subscribe", "subscribe_all"}})

\* the calls a thread or a callback can make
BusCalls(gone) ==
    (IF SubscribeCalls < MaxSubs
     THEN {Frame("subscribe", c, 0, {}) : c \in Categories}
          \cup {Frame("subscribe_all", "TRACKING", 0, {})}
     ELSE {})
    \cup {Frame("unsubscribe", "TRACKING", i, {}) : i \in 1..MaxSubs}
    \cup {Frame("publish", c, 0, gone) : c \in Categories}

Top(t) == bus_stack[t][Len(bus_stack[t])]

\* the stack of t with its top frame replaced by f
WithTop(t, f) == [bus_stack[t] EXCEPT ![Len(bus_stack[t])] = f]

\* the stack of t after its top call returned: a callback that made the call
\* returns too, and the publish below goes on with its loop
Returned(t) ==
    LET rest == SubSeq(bus_stack[t], 1, Len(bus_stack[t]) - 1)
    IN  IF rest = <<>> THEN rest
        ELSE [rest EXCEPT ![Len(rest)] = [@ EXCEPT !.pc = "calling"]]

\* if (s.category == event.category): the test without all_categories
Matches_CategoryOnly(s, category) == s.category = category

\* if (s.all_categories || s.category == event.category)
Matches(s, category) == s.all_categories \/ s.category = category

\* the ids of the subscriptions of subs that receive an event of the category
RECURSIVE ToCall(_, _)
ToCall(subs, category) ==
    IF subs = <<>> THEN <<>>
    ELSE (IF Matches(Head(subs), category) THEN <<Head(subs).id>> ELSE <<>>)
         \o ToCall(Tail(subs), category)

\* remove_if + erase that keeps only the subscription of sub_id
Erase_Inverted(subs, sub_id) == SelectSeq(subs, LAMBDA s : s.id = sub_id)

\* subs_.erase(std::remove_if(.., s.id == sub_id), subs_.end())
Erase(subs, sub_id) == SelectSeq(subs, LAMBDA s : s.id # sub_id)

BusInit ==
    /\ bus_mutex_ = 0
    /\ subs_ = <<>>
    /\ next_id_ = 1
    /\ bus_stack = [t \in BusThreads |-> <<>>]
    /\ bus_gone = {}
    /\ bus_done = [call |-> NoFrame, thread |-> 0]
    /\ bus_calls = 0

\* a thread calls the bus
EbCall(t) ==
    /\ bus_stack[t] = <<>>
    /\ bus_calls < MaxBusCalls
    /\ \E f \in BusCalls(bus_gone) : bus_stack' = [bus_stack EXCEPT ![t] = <<f>>]
    /\ bus_calls' = bus_calls + 1
    /\ UNCHANGED <<bus_mutex_, subs_, next_id_, bus_gone, bus_done>>
    /\ UNCHANGED <<trackerVars, statsVars, mtVars, framerVars, nodeVars, gwVars>>
    /\ UNCHANGED <<handlerVars, pipeVars>>

\* uint32_t EventBus::subscribe(EventCategory cat, Callback cb)
EventBus_subscribe(t) ==
    /\ bus_stack[t] # <<>>
    /\ Top(t).op = "subscribe"
    /\ bus_mutex_ = 0
    /\ subs_' = Append(subs_, Subscription(next_id_, Top(t).category, FALSE))
    /\ next_id_' = next_id_ + 1
    /\ bus_stack' = [bus_stack EXCEPT ![t] = Returned(t)]
    /\ UNCHANGED <<bus_mutex_, bus_gone, bus_done, bus_calls>>
    /\ UNCHANGED <<trackerVars, statsVars, mtVars, framerVars, nodeVars, gwVars>>
    /\ UNCHANGED <<handlerVars, pipeVars>>

\* uint32_t EventBus::subscribe_all(Callback cb)
EventBus_subscribe_all(t) ==
    /\ bus_stack[t] # <<>>
    /\ Top(t).op = "subscribe_all"
    /\ bus_mutex_ = 0
    /\ subs_' = Append(subs_, Subscription(next_id_, "TRACKING", TRUE))
    /\ next_id_' = next_id_ + 1
    /\ bus_stack' = [bus_stack EXCEPT ![t] = Returned(t)]
    /\ UNCHANGED <<bus_mutex_, bus_gone, bus_done, bus_calls>>
    /\ UNCHANGED <<trackerVars, statsVars, mtVars, framerVars, nodeVars, gwVars>>
    /\ UNCHANGED <<handlerVars, pipeVars>>

\* void EventBus::unsubscribe(uint32_t sub_id)
EventBus_unsubscribe(t) ==
    /\ bus_stack[t] # <<>>
    /\ Top(t).op = "unsubscribe"
    /\ bus_mutex_ = 0
    /\ subs_' = Erase(subs_, Top(t).id)
    /\ bus_gone' = bus_gone \cup
           {subs_[i] : i \in {j \in 1..Len(subs_) : subs_[j].id = Top(t).id}}
    /\ bus_stack' = [bus_stack EXCEPT ![t] = Returned(t)]
    /\ UNCHANGED <<bus_mutex_, next_id_, bus_done, bus_calls>>
    /\ UNCHANGED <<trackerVars, statsVars, mtVars, framerVars, nodeVars, gwVars>>
    /\ UNCHANGED <<handlerVars, pipeVars>>

\* publish, lines 32-38: lock mutex_, copy the matching callbacks to to_call
EventBus_publish_copy(t) ==
    /\ bus_stack[t] # <<>>
    /\ Top(t).op = "publish"
    /\ Top(t).pc = "enter"
    /\ bus_mutex_ = 0
    /\ bus_mutex_' = t
    /\ bus_stack' = [bus_stack EXCEPT ![t] =
           WithTop(t, [Top(t) EXCEPT !.pc = "locked",
                                     !.to_call = ToCall(subs_, Top(t).category),
                                     !.at_call = subs_])]
    /\ UNCHANGED <<subs_, next_id_, bus_gone, bus_done, bus_calls>>
    /\ UNCHANGED <<trackerVars, statsVars, mtVars, framerVars, nodeVars, gwVars>>
    /\ UNCHANGED <<handlerVars, pipeVars>>

\* publish with the lock_guard in the scope of the whole function: the loop
\* over to_call starts with mutex_ still held
EventBus_publish_unlock_AtReturn(t) ==
    /\ bus_stack[t] # <<>>
    /\ Top(t).op = "publish"
    /\ Top(t).pc = "locked"
    /\ bus_stack' = [bus_stack EXCEPT ![t] = WithTop(t, [Top(t) EXCEPT !.pc = "calling"])]
    /\ UNCHANGED <<bus_mutex_, subs_, next_id_, bus_gone, bus_done, bus_calls>>
    /\ UNCHANGED <<trackerVars, statsVars, mtVars, framerVars, nodeVars, gwVars>>
    /\ UNCHANGED <<handlerVars, pipeVars>>

\* publish, line 39: the end of the lock_guard's scope
EventBus_publish_unlock(t) ==
    /\ bus_stack[t] # <<>>
    /\ Top(t).op = "publish"
    /\ Top(t).pc = "locked"
    /\ bus_mutex_' = 0
    /\ bus_stack' = [bus_stack EXCEPT ![t] = WithTop(t, [Top(t) EXCEPT !.pc = "calling"])]
    /\ UNCHANGED <<subs_, next_id_, bus_gone, bus_done, bus_calls>>
    /\ UNCHANGED <<trackerVars, statsVars, mtVars, framerVars, nodeVars, gwVars>>
    /\ UNCHANGED <<handlerVars, pipeVars>>

\* publish, lines 40-42: cb(event) for the next callback of to_call.  The
\* callback either returns at once or calls the bus (once) before it returns.
EventBus_publish_invoke(t) ==
    /\ bus_stack[t] # <<>>
    /\ Top(t).op = "publish"
    /\ Top(t).pc = "calling"
    /\ Top(t).to_call # <<>>
    /\ LET f == [Top(t) EXCEPT !.to_call = Tail(@),
                               !.called = Append(@, [id |-> Head(Top(t).to_call),
                                                      by |-> t])]
       IN  \/ /\ bus_stack' = [bus_stack EXCEPT ![t] = WithTop(t, f)]
              /\ UNCHANGED bus_calls
           \/ /\ Len(bus_stack[t]) < MaxDepth
              /\ bus_calls < MaxBusCalls
              /\ \E g \in BusCalls(bus_gone) :
                     bus_stack' = [bus_stack EXCEPT ![t] =
                         Append(WithTop(t, [f EXCEPT !.pc = "in_cb"]), g)]
              /\ bus_calls' = bus_calls + 1
    /\ UNCHANGED <<bus_mutex_, subs_, next_id_, bus_gone, bus_done>>
    /\ UNCHANGED <<trackerVars, statsVars, mtVars, framerVars, nodeVars, gwVars>>
    /\ UNCHANGED <<handlerVars, pipeVars>>

\* publish, line 43: the loop is over, publish returns
EventBus_publish_return(t) ==
    /\ bus_stack[t] # <<>>
    /\ Top(t).op = "publish"
    /\ Top(t).pc = "calling"
    /\ Top(t).to_call = <<>>
    /\ bus_done' = [call |-> Top(t), thread |-> t]
    /\ bus_stack' = [bus_stack EXCEPT ![t] = Returned(t)]
    /\ UNCHANGED <<bus_mutex_, subs_, next_id_, bus_gone, bus_calls>>
    /\ UNCHANGED <<trackerVars, statsVars, mtVars, framerVars, nodeVars, gwVars>>
    /\ UNCHANGED <<handlerVars, pipeVars>>

\* the steps thread t can take inside the calls it is in
BusStep(t) ==
    \/ EventBus_subscribe(t)
    \/ EventBus_subscribe_all(t)
    \/ EventBus_unsubscribe(t)
    \/ EventBus_publish_copy(t)
    \/ EventBus_publish_unlock(t)
    \/ EventBus_publish_invoke(t)
    \/ EventBus_publish_return(t)

(***************************************************************************)
(* TcpFramer                                                               *)
(* A byte is a number in 0..255, a payload a sequence of bytes.  wire is   *)
(* the byte stream on its way to the framer: encode(p) and headers are put *)
(* at its end, feed takes any number of bytes from its front.              *)
(***************************************************************************)
\* the payloads passed to encode: for every length 0..MaxPayloadLen, the
\* payloads that repeat one of PayloadBytes (0 is the byte the length prefix
\* of a short frame is made of)
PayloadBytes == {0, 65}

PayloadsOfLen(n) == {[i \in 1..n |-> b] : b \in PayloadBytes}

Payloads == UNION {PayloadsOfLen(n) : n \in 0..MaxPayloadLen}

\* the sanity limit of try_extract_frames, 10 * 1024 * 1024
MAX_FRAME_LEN == 10485760

\* length prefixes that are not followed by a payload: 10 MiB + 1 (the
\* smallest length that is refused) and 10 MiB (the largest that is accepted)
OversizeHeaders == {<<0, 160, 0, 1>>}

LargestHeader == <<0, 160, 0, 0>>

\* std::vector<uint8_t> encode(const uint8_t* data, std::size_t len)
encode(payload) ==
    LET be_len == Len(payload)
    IN  << (be_len \div 16777216) % 256, (be_len \div 65536) % 256,
           (be_len \div 256) % 256, be_len % 256 >> \o payload

\* uint32_t frame_len read from the first four bytes of the buffer, as the
\* two 16-bit halves of the uint32_t
FrameLen(buffer) ==
    [hi |-> buffer[1] * 256 + buffer[2], lo |-> buffer[3] * 256 + buffer[4]]

\* if (frame_len > 10 * 1024 * 1024)
TooLong(frame_len) == U32Lt(U32Of(MAX_FRAME_LEN), frame_len)

\* the bytes a frame takes in the buffer, when only the payload is counted
FrameSize_PayloadOnly(n) == n

\* the bytes a frame of payload length n takes in the buffer: 4 + frame_len
FrameSize(n) == 4 + n

\* buffer_.clear() that clears the ready queue as well, as reset() does
OnTooLong_Reset(buffer, ready) ==
    [buffer |-> <<>>, ready |-> <<>>, discarded |-> TRUE]

\* buffer_.clear(); return;
OnTooLong(buffer, ready) ==
    [buffer |-> <<>>, ready |-> ready, discarded |-> TRUE]

\* void try_extract_frames(): the buffer and the ready queue it leaves, and
\* whether it discarded the buffer
RECURSIVE try_extract_frames(_, _)
try_extract_frames(buffer, ready) ==
    IF Len(buffer) < 4
    THEN [buffer |-> buffer, ready |-> ready, discarded |-> FALSE]
    ELSE LET frame_len == FrameLen(buffer)
             n == frame_len.hi * HALF + frame_len.lo
         IN  IF TooLong(frame_len) THEN OnTooLong(buffer, ready)
             ELSE IF Len(buffer) < 4 + n
             THEN [buffer |-> buffer, ready |-> ready, discarded |-> FALSE]
             ELSE try_extract_frames(
                      SubSeq(buffer, FrameSize(n) + 1, Len(buffer)),
                      Append(ready, SubSeq(buffer, 5, 4 + n)))

FramerInit ==
    /\ buffer_ = <<>>
    /\ ready_frames_ = <<>>
    /\ wire = <<>>
    /\ fr_sent = <<>>
    /\ fr_popped = <<>>
    /\ fr_clean = TRUE
    /\ fr_kept = -1
    /\ fr_sends = 0

\* the peer sends encode(payload)
FrSend(payload) ==
    /\ fr_sends < MaxFrames
    /\ wire' = wire \o encode(payload)
    /\ fr_sent' = Append(fr_sent, payload)
    /\ fr_sends' = fr_sends + 1
    /\ UNCHANGED <<trackerVars, statsVars, mtVars, busVars, nodeVars, gwVars>>
    /\ UNCHANGED <<handlerVars, pipeVars>>
    /\ UNCHANGED <<buffer_, ready_frames_, fr_popped, fr_clean, fr_kept>>

\* the peer sends a length prefix that is not the start of an encode(p) of
\* the payloads above
FrSendHeader(header) ==
    /\ fr_sends < MaxFrames
    /\ wire' = wire \o header
    /\ fr_clean' = FALSE
    /\ fr_sends' = fr_sends + 1
    /\ UNCHANGED <<trackerVars, statsVars, mtVars, busVars, nodeVars, gwVars>>
    /\ UNCHANGED <<handlerVars, pipeVars>>
    /\ UNCHANGED <<buffer_, ready_frames_, fr_sent, fr_popped, fr_kept>>

\* void feed(const uint8_t* data, std::size_t len) with the first len bytes
\* of the wire
TcpFramer_feed(len) ==
    /\ len <= Len(wire)
    /\ LET r == try_extract_frames(buffer_ \o SubSeq(wire, 1, len), ready_frames_)
       IN  /\ buffer_' = r.buffer
           /\ ready_frames_' = r.ready
           /\ fr_kept' = IF r.discarded THEN Len(r.ready) ELSE fr_kept
    /\ wire' = SubSeq(wire, len + 1, Len(wire))
    /\ UNCHANGED <<fr_sent, fr_popped, fr_clean, fr_sends>>
    /\ UNCHANGED <<trackerVars, statsVars, mtVars, busVars, nodeVars, gwVars>>
    /\ UNCHANGED <<handlerVars, pipeVars>>

\* bool has_frame() const
TcpFramer_has_frame == ready_frames_ # <<>>

\* std::string pop_frame(), called when has_frame()
TcpFramer_pop_frame ==
    /\ TcpFramer_has_frame
    /\ fr_popped' = Append(fr_popped, Head(ready_frames_))
    /\ ready_frames_' = Tail(ready_frames_)
    /\ UNCHANGED <<trackerVars, statsVars, mtVars, busVars, nodeVars, gwVars>>
    /\ UNCHANGED <<handlerVars, pipeVars>>
    /\ UNCHANGED <<buffer_, wire, fr_sent, fr_clean, fr_kept, fr_sends>>

SendAny == \E payload \in Payloads : FrSend(payload)

SendHeader == \E header \in OversizeHeaders \cup {LargestHeader} : FrSendHeader(header)

FeedAny == \E len \in 1..Len(wire) : TcpFramer_feed(len)

(***************************************************************************)
(* ControlNode                                                             *)
(* The threads of a node: the thread that calls start() and stop() (main), *)
(* the accept thread and one client thread per accepted connection.  A     *)
(* thread is named by a pair: <<"main", 0>>, <<"accept", 0>>,              *)
(* <<"client", c>>; <<"none", 0>> is no thread.  A connection is made of   *)
(* the complete request frames the peer has sent (the bytes of a frame are *)
(* the TcpFramer's business); a client is known by the number of its       *)
(* connection.                                                             *)
(***************************************************************************)
Clients == 1..NumClients

NoThread == <<"none", 0>>

MainThread == <<"main", 0>>

AcceptThread == <<"accept", 0>>

ClientThread(c) == <<"client", c>>

\* the commands the peers send: a valid one and an invalid one
Commands == {"GET health", "INVALID xyz"}

\* the SET CRC commands: the two values handle_set accepts and one it refuses
SetCommands == {"SET CRC=OFF", "SET CRC=ON", "SET CRC=maybe"}

\* the command reaches handle_set, which reads and writes crc_enabled_ and
\* config_
IsSet(c) == c \in SetCommands

\* std::string CommandHandler::handle(const std::string& command), for the
\* commands above: the response; the StatsManager is the one of the node
CommandHandler_handle(c) ==
    IF c = "GET health" THEN <<"HEALTH", get_health>>
    ELSE IF c = "SET CRC=ON" THEN <<"OK", "CRC=ON">>
    ELSE IF c = "SET CRC=OFF" THEN <<"OK", "CRC=OFF">>
    ELSE IF c = "SET CRC=maybe" THEN <<"ERR", "INVALID_CRC_VALUE">>
    ELSE <<"ERR", "UNKNOWN_COMMAND">>

\* config_[key] = value
PutConfig(cfg, key, value) ==
    [k \in DOMAIN cfg \cup {key} |-> IF k = key THEN value ELSE cfg[k]]

\* CommandHandler::handle_set, key CRC: the handler's crc_enabled_ and
\* config_ after the command c, h being the two before it
handle_set(c, h) ==
    IF c = "SET CRC=ON"
    THEN [crc_enabled_ |-> TRUE, config_ |-> PutConfig(h.config_, "CRC", "ON")]
    ELSE IF c = "SET CRC=OFF"
    THEN [crc_enabled_ |-> FALSE, config_ |-> PutConfig(h.config_, "CRC", "OFF")]
    ELSE h

\* the values a CommandHandler's crc_enabled_ and config_ take
HandlerStates ==
    {[crc_enabled_ |-> b, config_ |-> m] :
        b \in BOOLEAN, m \in {<<>>} \cup {[k \in {"CRC"} |-> v] : v \in {"ON", "OFF"}}}

\* CommandHandler(stats, logger): crc_enabled_ = true, config_ empty
HandlerInit ==
    /\ crc_enabled_ = TRUE
    /\ config_ = <<>>
    /\ handle_ret = <<>>

NodeInit ==
    /\ listen_fd_ = "closed"
    /\ node_running_ = FALSE
    /\ node_should_stop_ = FALSE
    /\ clients_mutex_ = NoThread
    /\ client_threads_ = {}
    /\ client_fds_ = {}
    /\ main_pc = "idle"
    /\ accept_pc = "none"
    /\ accepted = 0
    /\ client_pc = [c \in Clients |-> "none"]
    /\ fd_open = [c \in Clients |-> FALSE]
    /\ backlog = {}
    /\ peer_closed = [c \in Clients |-> FALSE]
    /\ sock_in = [c \in Clients |-> <<>>]
    /\ framer_ready = [c \in Clients |-> <<>>]
    /\ command = [c \in Clients |-> ""]
    /\ requests = [c \in Clients |-> <<>>]
    /\ responses = [c \in Clients |-> <<>>]
    /\ stop_calls = 0
    /\ stops_returned = <<>>

\* the variables of the connections' data
connVars == <<peer_closed, sock_in, framer_ready, command, requests, responses>>

\* bool ControlNode::start(): on a running node it returns at once; the
\* socket, bind and listen calls succeed
ControlNode_start ==
    /\ main_pc = "idle"
    /\ ~node_running_
    /\ accept_pc \in {"none", "done"}
    /\ listen_fd_' = "open"
    /\ node_should_stop_' = FALSE
    /\ node_running_' = TRUE
    /\ accept_pc' = "loop"
    /\ UNCHANGED <<clients_mutex_, client_threads_, client_fds_, main_pc, accepted,
                   client_pc, fd_open, backlog, connVars, stop_calls, stops_returned>>
    /\ UNCHANGED <<trackerVars, statsVars, mtVars, busVars, framerVars, gwVars>>
    /\ UNCHANGED <<handlerVars, pipeVars>>

\* stop() without the test of running_ at its start
ControlNode_stop_call_NoGuard ==
    /\ main_pc = "idle"
    /\ stop_calls < MaxStops
    /\ stop_calls' = stop_calls + 1
    /\ main_pc' = "signal"
    /\ UNCHANGED <<listen_fd_, node_running_, node_should_stop_, clients_mutex_,
                   client_threads_, client_fds_, accept_pc, accepted, client_pc,
                   fd_open, backlog, connVars, stops_returned>>
    /\ UNCHANGED <<trackerVars, statsVars, mtVars, busVars, framerVars, gwVars>>
    /\ UNCHANGED <<handlerVars, pipeVars>>

\* void ControlNode::stop(), lines 55-56: the call, and the return of a call
\* made on a node that is not running
ControlNode_stop_call ==
    /\ main_pc = "idle"
    /\ stop_calls < MaxStops
    /\ stop_calls' = stop_calls + 1
    /\ IF node_running_
       THEN main_pc' = "signal" /\ UNCHANGED stops_returned
       ELSE main_pc' = "idle" /\ stops_returned' = Append(stops_returned, "at_once")
    /\ UNCHANGED <<listen_fd_, node_running_, node_should_stop_, clients_mutex_,
                   client_threads_, client_fds_, accept_pc, accepted, client_pc,
                   fd_open, backlog, connVars>>
    /\ UNCHANGED <<trackerVars, statsVars, mtVars, busVars, framerVars, gwVars>>
    /\ UNCHANGED <<handlerVars, pipeVars>>

\* stop(), lines 58-65: should_stop_ = true, the listening socket is closed
ControlNode_stop_signal ==
    /\ main_pc = "signal"
    /\ node_should_stop_' = TRUE
    /\ listen_fd_' = "closed"
    /\ backlog' = {}
    /\ main_pc' = "close_clients"
    /\ UNCHANGED <<node_running_, clients_mutex_, client_threads_, client_fds_,
                   accept_pc, accepted, client_pc, fd_open, connVars, stop_calls,
                   stops_returned>>
    /\ UNCHANGED <<trackerVars, statsVars, mtVars, busVars, framerVars, gwVars>>
    /\ UNCHANGED <<handlerVars, pipeVars>>

\* stop(), lines 68-75: under clients_mutex_, every fd of client_fds_ is shut
\* down and closed, client_fds_ is cleared
ControlNode_stop_close_clients ==
    /\ main_pc = "close_clients"
    /\ clients_mutex_ = NoThread
    /\ fd_open' = [c \in Clients |-> IF c \in client_fds_ THEN FALSE ELSE fd_open[c]]
    /\ client_fds_' = {}
    /\ main_pc' = "join_accept"
    /\ UNCHANGED <<listen_fd_, node_running_, node_should_stop_, clients_mutex_,
                   client_threads_, accept_pc, accepted, client_pc, backlog, connVars,
                   stop_calls, stops_returned>>
    /\ UNCHANGED <<trackerVars, statsVars, mtVars, busVars, framerVars, gwVars>>
    /\ UNCHANGED <<handlerVars, pipeVars>>

\* stop(), lines 77-78: accept_thread_.join() returns when the accept thread
\* has ended
ControlNode_stop_join_accept ==
    /\ main_pc = "join_accept"
    /\ accept_pc = "done"
    /\ main_pc' = "lock_clients"
    /\ UNCHANGED <<listen_fd_, node_running_, node_should_stop_, clients_mutex_,
                   client_threads_, client_fds_, accept_pc, accepted, client_pc,
                   fd_open, backlog, connVars, stop_calls, stops_returned>>
    /\ UNCHANGED <<trackerVars, statsVars, mtVars, busVars, framerVars, gwVars>>
    /\ UNCHANGED <<handlerVars, pipeVars>>

\* stop(), line 82: std::lock_guard lock(clients_mutex_) of the join block
ControlNode_stop_lock ==
    /\ main_pc = "lock_clients"
    /\ clients_mutex_ = NoThread
    /\ clients_mutex_' = MainThread
    /\ main_pc' = "join_clients"
    /\ UNCHANGED <<listen_fd_, node_running_, node_should_stop_, client_threads_,
                   client_fds_, accept_pc, accepted, client_pc, fd_open, backlog,
                   connVars, stop_calls, stops_returned>>
    /\ UNCHANGED <<trackerVars, statsVars, mtVars, busVars, framerVars, gwVars>>
    /\ UNCHANGED <<handlerVars, pipeVars>>

\* stop(), lines 83-88: every thread of client_threads_ is joined, the vector
\* is cleared, the mutex is released
ControlNode_stop_join_clients ==
    /\ main_pc = "join_clients"
    /\ \A c \in client_threads_ : client_pc[c] = "done"
    /\ client_threads_' = {}
    /\ clients_mutex_' = NoThread
    /\ main_pc' = "finish"
    /\ UNCHANGED <<listen_fd_, node_running_, node_should_stop_, client_fds_,
                   accept_pc, accepted, client_pc, fd_open, backlog, connVars,
                   stop_calls, stops_returned>>
    /\ UNCHANGED <<trackerVars, statsVars, mtVars, busVars, framerVars, gwVars>>
    /\ UNCHANGED <<handlerVars, pipeVars>>

\* stop(), line 90: running_ = false; stop returns
ControlNode_stop_finish ==
    /\ main_pc = "finish"
    /\ node_running_' = FALSE
    /\ main_pc' = "idle"
    /\ stops_returned' = Append(stops_returned, "shut_down")
    /\ UNCHANGED <<listen_fd_, node_should_stop_, clients_mutex_, client_threads_,
                   client_fds_, accept_pc, accepted, client_pc, fd_open, backlog,
                   connVars, stop_calls>>
    /\ UNCHANGED <<trackerVars, statsVars, mtVars, busVars, framerVars, gwVars>>
    /\ UNCHANGED <<handlerVars, pipeVars>>

\* accept_loop, line 94: while (!should_stop_.load())
ControlNode_accept_loop ==
    /\ accept_pc = "loop"
    /\ accept_pc' = IF node_should_stop_ THEN "done" ELSE "poll"
    /\ UNCHANGED <<listen_fd_, node_running_, node_should_stop_, clients_mutex_,
                   client_threads_, client_fds_, main_pc, accepted, client_pc,
                   fd_open, backlog, connVars, stop_calls, stops_returned>>
    /\ UNCHANGED <<trackerVars, statsVars, mtVars, busVars, framerVars, gwVars>>
    /\ UNCHANGED <<handlerVars, pipeVars>>

\* accept_loop, lines 95-104: poll of the listening socket; a connection is
\* waiting, or the poll times out
ControlNode_accept_poll ==
    /\ accept_pc = "poll"
    /\ accept_pc' = IF listen_fd_ = "open" /\ backlog # {} /\ ~node_should_stop_
                    THEN "accept" ELSE "loop"
    /\ UNCHANGED <<listen_fd_, node_running_, node_should_stop_, clients_mutex_,
                   client_threads_, client_fds_, main_pc, accepted, client_pc,
                   fd_open, backlog, connVars, stop_calls, stops_returned>>
    /\ UNCHANGED <<trackerVars, statsVars, mtVars, busVars, framerVars, gwVars>>
    /\ UNCHANGED <<handlerVars, pipeVars>>

\* accept_loop, lines 106-112: accept() returns the fd of a waiting
\* connection, or fails when the listening socket has been closed
ControlNode_accept_accept ==
    /\ accept_pc = "accept"
    /\ IF listen_fd_ = "open" /\ backlog # {}
       THEN \E c \in backlog :
                /\ backlog' = backlog \ {c}
                /\ fd_open' = [fd_open EXCEPT ![c] = TRUE]
                /\ accepted' = c
                /\ accept_pc' = "push"
       ELSE /\ accept_pc' = "loop"
            /\ UNCHANGED <<backlog, fd_open, accepted>>
    /\ UNCHANGED <<listen_fd_, node_running_, node_should_stop_, clients_mutex_,
                   client_threads_, client_fds_, main_pc, client_pc, connVars,
                   stop_calls, stops_returned>>
    /\ UNCHANGED <<trackerVars, statsVars, mtVars, busVars, framerVars, gwVars>>
    /\ UNCHANGED <<handlerVars, pipeVars>>

\* accept_loop, lines 114-118: under clients_mutex_, the fd is recorded and
\* the client thread is started
ControlNode_accept_push ==
    /\ accept_pc = "push"
    /\ clients_mutex_ = NoThread
    /\ client_fds_' = client_fds_ \cup {accepted}
    /\ client_threads_' = client_threads_ \cup {accepted}
    /\ client_pc' = [client_pc EXCEPT ![accepted] = "loop"]
    /\ accepted' = 0
    /\ accept_pc' = "loop"
    /\ UNCHANGED <<listen_fd_, node_running_, node_should_stop_, clients_mutex_,
                   main_pc, fd_open, backlog, connVars, stop_calls, stops_returned>>
    /\ UNCHANGED <<trackerVars, statsVars, mtVars, busVars, framerVars, gwVars>>
    /\ UNCHANGED <<handlerVars, pipeVars>>

\* client_loop, line 126: while (!should_stop_.load())
ControlNode_client_loop(c) ==
    /\ client_pc[c] = "loop"
    /\ client_pc' = [client_pc EXCEPT ![c] = IF node_should_stop_ THEN "close" ELSE "poll"]
    /\ UNCHANGED <<listen_fd_, node_running_, node_should_stop_, clients_mutex_,
                   client_threads_, client_fds_, main_pc, accept_pc, accepted,
                   fd_open, backlog, connVars, stop_calls, stops_returned>>
    /\ UNCHANGED <<trackerVars, statsVars, mtVars, busVars, framerVars, gwVars>>
    /\ UNCHANGED <<handlerVars, pipeVars>>

\* client_loop, lines 127-141: poll of the client socket.  A closed or shut
\* down fd gives an error event (break), data or the peer's close give
\* POLLIN, otherwise the poll times out.
ControlNode_client_poll(c) ==
    /\ client_pc[c] = "poll"
    /\ client_pc' = [client_pc EXCEPT ![c] =
           IF ~fd_open[c] THEN "close"
           ELSE IF sock_in[c] # <<>> \/ peer_closed[c] THEN "recv"
           ELSE "loop"]
    /\ UNCHANGED <<listen_fd_, node_running_, node_should_stop_, clients_mutex_,
                   client_threads_, client_fds_, main_pc, accept_pc, accepted,
                   fd_open, backlog, connVars, stop_calls, stops_returned>>
    /\ UNCHANGED <<trackerVars, statsVars, mtVars, busVars, framerVars, gwVars>>
    /\ UNCHANGED <<handlerVars, pipeVars>>

\* client_loop, lines 143-147: recv and framer.feed; recv delivers one or
\* more of the frames that wait, or n <= 0 (break) when the fd has been
\* closed or the peer has closed and nothing waits
ControlNode_client_recv(c) ==
    /\ client_pc[c] = "recv"
    /\ IF ~fd_open[c] \/ sock_in[c] = <<>>
       THEN /\ client_pc' = [client_pc EXCEPT ![c] = "close"]
            /\ UNCHANGED <<sock_in, framer_ready, requests>>
       ELSE \E n \in 1..Len(sock_in[c]) :
                /\ sock_in' = [sock_in EXCEPT ![c] = SubSeq(@, n + 1, Len(@))]
                /\ framer_ready' = [framer_ready EXCEPT
                                       ![c] = @ \o SubSeq(sock_in[c], 1, n)]
                /\ requests' = [requests EXCEPT ![c] = @ \o SubSeq(sock_in[c], 1, n)]
                /\ client_pc' = [client_pc EXCEPT ![c] = "handle"]
    /\ UNCHANGED <<listen_fd_, node_running_, node_should_stop_, clients_mutex_,
                   client_threads_, client_fds_, main_pc, accept_pc, accepted,
                   fd_open, backlog, peer_closed, command, responses, stop_calls,
                   stops_returned>>
    /\ UNCHANGED <<trackerVars, statsVars, mtVars, busVars, framerVars, gwVars>>
    /\ UNCHANGED <<handlerVars, pipeVars>>

\* the response sent for a command, when every command is answered with the
\* error response
Respond_AlwaysErr(cmd) == <<"ERR", "UNKNOWN_COMMAND">>

\* client_loop, lines 150-153: the response frame sent for a command
Respond(cmd) == CommandHandler_handle(cmd)

\* client_loop, line 154: the results ::send can have, TRUE when the
\* response was sent: it fails on an fd that stop() has closed, it succeeds
\* on an open connection, and after the peer's close it does either
send(c) ==
    IF ~fd_open[c] THEN {FALSE}
    ELSE IF peer_closed[c] THEN {TRUE, FALSE}
    ELSE {TRUE}

\* client_loop, lines 149-151: the test of while (framer.has_frame()); a
\* frame that waits is popped into command and handler_.handle is entered
ControlNode_client_pop(c) ==
    /\ client_pc[c] = "handle"
    /\ IF framer_ready[c] = <<>>
       THEN /\ client_pc' = [client_pc EXCEPT ![c] = "loop"]
            /\ UNCHANGED <<framer_ready, command>>
       ELSE /\ framer_ready' = [framer_ready EXCEPT ![c] = Tail(@)]
            /\ command' = [command EXCEPT ![c] = Head(framer_ready[c])]
            /\ client_pc' = [client_pc EXCEPT ![c] = "in_handle"]
    /\ UNCHANGED <<listen_fd_, node_running_, node_should_stop_, clients_mutex_,
                   client_threads_, client_fds_, main_pc, accept_pc, accepted,
                   fd_open, backlog, peer_closed, sock_in, requests, responses,
                   stop_calls, stops_returned>>
    /\ UNCHANGED <<trackerVars, statsVars, mtVars, busVars, framerVars, gwVars>>
    /\ UNCHANGED <<handlerVars, pipeVars>>

\* the client thread c is in handler_.handle while another client thread is
\* in it too, and one of the two is in handle_set: crc_enabled_ and config_
\* are read and written with no lock (a data race)
Racing(c) ==
    \E d \in Clients \ {c} :
        /\ client_pc[d] = "in_handle"
        /\ IsSet(command[c]) \/ IsSet(command[d])

\* the handler's crc_enabled_ and config_ after thread c's handle call: what
\* handle_set leaves, or anything when the call races with another
Handled(c) ==
    LET h == [crc_enabled_ |-> crc_enabled_, config_ |-> config_]
    IN  IF Racing(c) THEN HandlerStates
        ELSE IF IsSet(command[c]) THEN {handle_set(command[c], h)}
        ELSE {h}

\* client_loop, lines 151-157: handler_.handle(command) runs and returns,
\* the response is sent; a failed send leaves the inner loop (break)
ControlNode_client_handle(c) ==
    /\ client_pc[c] = "in_handle"
    /\ \E h \in Handled(c) :
           /\ crc_enabled_' = h.crc_enabled_
           /\ config_' = h.config_
    /\ handle_ret' = Respond(command[c])
    /\ command' = [command EXCEPT ![c] = ""]
    /\ \E sent \in send(c) :
           IF sent
           THEN /\ responses' = [responses EXCEPT ![c] = Append(@, Respond(command[c]))]
                /\ client_pc' = [client_pc EXCEPT ![c] = "handle"]
           ELSE /\ client_pc' = [client_pc EXCEPT ![c] = "loop"]
                /\ UNCHANGED responses
    /\ UNCHANGED <<listen_fd_, node_running_, node_should_stop_, clients_mutex_,
                   client_threads_, client_fds_, main_pc, accept_pc, accepted,
                   fd_open, backlog, peer_closed, sock_in, framer_ready, requests,
                   stop_calls, stops_returned>>
    /\ UNCHANGED <<trackerVars, statsVars, mtVars, busVars, framerVars, gwVars>>
    /\ UNCHANGED pipeVars

\* client_loop, line 160: ::close(client_fd)
ControlNode_client_close(c) ==
    /\ client_pc[c] = "close"
    /\ fd_open' = [fd_open EXCEPT ![c] = FALSE]
    /\ client_pc' = [client_pc EXCEPT ![c] = "erase"]
    /\ UNCHANGED <<listen_fd_, node_running_, node_should_stop_, clients_mutex_,
                   client_threads_, client_fds_, main_pc, accept_pc, accepted,
                   backlog, connVars, stop_calls, stops_returned>>
    /\ UNCHANGED <<trackerVars, statsVars, mtVars, busVars, framerVars, gwVars>>
    /\ UNCHANGED <<handlerVars, pipeVars>>

\* client_loop, lines 163-168: under clients_mutex_, the fd is removed from
\* client_fds_; the thread ends
ControlNode_client_erase(c) ==
    /\ client_pc[c] = "erase"
    /\ clients_mutex_ = NoThread
    /\ client_fds_' = client_fds_ \ {c}
    /\ client_pc' = [client_pc EXCEPT ![c] = "done"]
    /\ UNCHANGED <<listen_fd_, node_running_, node_should_stop_, clients_mutex_,
                   client_threads_, main_pc, accept_pc, accepted, fd_open, backlog,
                   connVars, stop_calls, stops_returned>>
    /\ UNCHANGED <<trackerVars, statsVars, mtVars, busVars, framerVars, gwVars>>
    /\ UNCHANGED <<handlerVars, pipeVars>>

\* a peer connects: the connection waits in the listen queue.  Connections
\* are numbered in the order they are made.
PeerConnect(c) ==
    /\ listen_fd_ = "open"
    /\ client_pc[c] = "none"
    /\ c \notin backlog
    /\ accepted # c
    /\ ~peer_closed[c]
    /\ \A d \in Clients : d < c => (d \in backlog \/ client_pc[d] # "none" \/ accepted = d)
    /\ backlog' = backlog \cup {c}
    /\ UNCHANGED <<listen_fd_, node_running_, node_should_stop_, clients_mutex_,
                   client_threads_, client_fds_, main_pc, accept_pc, accepted,
                   client_pc, fd_open, connVars, stop_calls, stops_returned>>
    /\ UNCHANGED <<trackerVars, statsVars, mtVars, busVars, framerVars, gwVars>>
    /\ UNCHANGED <<handlerVars, pipeVars>>

\* a peer whose connection was accepted sends a request frame
PeerSend(c, cmd) ==
    /\ fd_open[c]
    /\ ~peer_closed[c]
    /\ Len(requests[c]) + Len(sock_in[c]) < MaxRequests
    /\ sock_in' = [sock_in EXCEPT ![c] = Append(@, cmd)]
    /\ UNCHANGED <<listen_fd_, node_running_, node_should_stop_, clients_mutex_,
                   client_threads_, client_fds_, main_pc, accept_pc, accepted,
                   client_pc, fd_open, backlog, peer_closed, framer_ready, command,
                   requests, responses, stop_calls, stops_returned>>
    /\ UNCHANGED <<trackerVars, statsVars, mtVars, busVars, framerVars, gwVars>>
    /\ UNCHANGED <<handlerVars, pipeVars>>

\* a peer closes its connection
PeerClose(c) ==
    /\ fd_open[c]
    /\ ~peer_closed[c]
    /\ peer_closed' = [peer_closed EXCEPT ![c] = TRUE]
    /\ UNCHANGED <<listen_fd_, node_running_, node_should_stop_, clients_mutex_,
                   client_threads_, client_fds_, main_pc, accept_pc, accepted,
                   client_pc, fd_open, backlog, sock_in, framer_ready, command,
                   requests, responses, stop_calls, stops_returned>>
    /\ UNCHANGED <<trackerVars, statsVars, mtVars, busVars, framerVars, gwVars>>
    /\ UNCHANGED <<handlerVars, pipeVars>>

\* the steps of the node's own threads
NodeThreadStep ==
    \/ ControlNode_stop_signal
    \/ ControlNode_stop_close_clients
    \/ ControlNode_stop_join_accept
    \/ ControlNode_stop_lock
    \/ ControlNode_stop_join_clients
    \/ ControlNode_stop_finish
    \/ ControlNode_accept_loop
    \/ ControlNode_accept_poll
    \/ ControlNode_accept_accept
    \/ ControlNode_accept_push
    \/ \E c \in Clients : ControlNode_client_loop(c)
    \/ \E c \in Clients : ControlNode_client_poll(c)
    \/ \E c \in Clients : ControlNode_client_recv(c)
    \/ \E c \in Clients : ControlNode_client_pop(c)
    \/ \E c \in Clients : ControlNode_client_handle(c)
    \/ \E c \in Clients : ControlNode_client_close(c)
    \/ \E c \in Clients : ControlNode_client_erase(c)

(***************************************************************************)
(* crc32 (src/src/common/crc32.cpp).  A uint32_t is kept here as its four  *)
(* bytes, least significant first, which is also how memcpy lays it out in *)
(* a frame.                                                                *)
(***************************************************************************)
\* a ^ b on n-bit values
RECURSIVE XorBits(_, _, _)
XorBits(a, b, n) ==
    IF n = 0 THEN 0
    ELSE ((a + b) % 2) + 2 * XorBits(a \div 2, b \div 2, n - 1)

\* a ^ b on 4-bit values, as a table
Xor4 == [a \in 0..15 |-> [b \in 0..15 |-> XorBits(a, b, 4)]]

\* a ^ b on uint8_t
Xor8(a, b) == 16 * Xor4[a \div 16][b \div 16] + Xor4[a % 16][b % 16]

\* a ^ b on uint32_t
Xor32(v, w) == [i \in 1..4 |-> Xor8(v[i], w[i])]

\* ~v on uint32_t
Not32(v) == [i \in 1..4 |-> 255 - v[i]]

\* v >> 1 on uint32_t
Shr1(v) ==
    [i \in 1..4 |-> (v[i] \div 2) + (IF i < 4 THEN (v[i + 1] % 2) * 128 ELSE 0)]

\* v >> 8 on uint32_t
Shr8(v) == <<v[2], v[3], v[4], 0>>

\* the polynomial 0xEDB88320u
CrcPoly == <<32, 131, 184, 237>>

\* the for loop of make_crc_entry, j rounds left
RECURSIVE CrcEntryLoop(_, _)
CrcEntryLoop(crc, j) ==
    IF j = 0 THEN crc
    ELSE CrcEntryLoop(IF crc[1] % 2 = 1 THEN Xor32(Shr1(crc), CrcPoly) ELSE Shr1(crc),
                      j - 1)

\* constexpr uint32_t make_crc_entry(uint32_t idx)
make_crc_entry(idx) == CrcEntryLoop(<<idx, 0, 0, 0>>, 8)

\* CrcTable::entries
CrcTable == [i \in 0..255 |-> make_crc_entry(i)]

\* the for loop of crc32_update over data[lo..hi]; the range is halved, so
\* that a long buffer does not nest deeply
RECURSIVE CrcLoop(_, _, _, _)
CrcLoop(crc, data, lo, hi) ==
    IF lo > hi THEN crc
    ELSE IF lo = hi THEN Xor32(Shr8(crc), CrcTable[Xor8(crc[1], data[lo])])
    ELSE LET mid == (lo + hi) \div 2
             half == CrcLoop(crc, data, lo, mid)
         IN  IF half[1] >= 0 THEN CrcLoop(half, data, mid + 1, hi) ELSE half

\* uint32_t crc32_update(uint32_t crc, const uint8_t* data, std::size_t len)
crc32_update(crc, data) == Not32(CrcLoop(Not32(crc), data, 1, Len(data)))

\* uint32_t crc32(const uint8_t* data, std::size_t len)
crc32(data) == crc32_update(<<0, 0, 0, 0>>, data)

(***************************************************************************)
(* The telemetry frame (src/src/common/protocol.h) and parse_frame         *)
(* (src/src/gateway/telemetry_parser.cpp).  A buffer is the sequence of    *)
(* its bytes.                                                              *)
(***************************************************************************)
\* uint16_t as two bytes and back, little-endian
LE2(n) == <<n % 256, n \div 256>>

U16At(buf, i) == buf[i] + 256 * buf[i + 1]

\* struct TelemetryHeader; seq is a uint32_t [hi, lo], ts_ns its eight bytes
TelemetryHeader(version, msg_type, src_id, seq, ts_ns, payload_len) ==
    [version |-> version, msg_type |-> msg_type, src_id |-> src_id, seq |-> seq,
     ts_ns |-> ts_ns, payload_len |-> payload_len]

\* void serialize_header(const TelemetryHeader& h, uint8_t* buf): the 18
\* bytes of the packed struct
serialize_header(h) ==
    <<h.version, h.msg_type>> \o LE2(h.src_id) \o LE2(h.seq.lo) \o LE2(h.seq.hi)
        \o h.ts_ns \o LE2(h.payload_len)

\* TelemetryHeader deserialize_header(const uint8_t* buf)
deserialize_header(buf) ==
    TelemetryHeader(buf[1], buf[2], U16At(buf, 3),
                    [hi |-> U16At(buf, 7), lo |-> U16At(buf, 5)],
                    SubSeq(buf, 9, 16), U16At(buf, 17))

\* a header that parse_frame has not written
NoHeader == TelemetryHeader(0, 0, 0, U32Of(0), <<0, 0, 0, 0, 0, 0, 0, 0>>, 0)

\* the size parse_frame expects of a frame with this payload_len
Expected(payload_len, crc_enabled) ==
    FRAME_HEADER_SIZE + payload_len + (IF crc_enabled THEN FRAME_CRC_SIZE ELSE 0)

\* struct ParsedFrame with the ParseError returned; payload is the bytes
\* payload_ptr points at
ParseResult(err, header, payload, crc, has_crc) ==
    [err |-> err, header |-> header, payload |-> payload, crc |-> crc,
     has_crc |-> has_crc]

\* the message type check of parse_frame
BadMsgType(mt) == mt < MsgType_PLOT \/ mt > MsgType_ENGAGEMENT

\* parse_frame from "Payload pointer" on: the frame is long enough
ParseBody(buf, crc_enabled, h) ==
    LET covered == FRAME_HEADER_SIZE + h.payload_len
        payload == SubSeq(buf, FRAME_HEADER_SIZE + 1, covered)
        crc == SubSeq(buf, covered + 1, covered + FRAME_CRC_SIZE)
    IN  IF crc_enabled
        THEN IF crc32(SubSeq(buf, 1, covered)) # crc
             THEN ParseResult("CRC_MISMATCH", h, payload, crc, TRUE)
             ELSE ParseResult("OK", h, payload, crc, TRUE)
        ELSE ParseResult("OK", h, payload, <<0, 0, 0, 0>>, FALSE)

\* parse_frame with the length check made before the checks of the header
\* fields
parse_frame_LengthFirst(buf, crc_enabled) ==
    IF Len(buf) < FRAME_HEADER_SIZE
    THEN ParseResult("TOO_SHORT", NoHeader, <<>>, <<0, 0, 0, 0>>, FALSE)
    ELSE LET h == deserialize_header(buf)
         IN  IF Len(buf) < Expected(h.payload_len, crc_enabled)
             THEN ParseResult("TRUNCATED", h, <<>>, <<0, 0, 0, 0>>, FALSE)
             ELSE IF h.version # PROTOCOL_VERSION
             THEN ParseResult("BAD_VERSION", h, <<>>, <<0, 0, 0, 0>>, FALSE)
             ELSE IF BadMsgType(h.msg_type)
             THEN ParseResult("BAD_MSG_TYPE", h, <<>>, <<0, 0, 0, 0>>, FALSE)
             ELSE IF h.payload_len > MAX_PAYLOAD_SIZE
             THEN ParseResult("PAYLOAD_TOO_LONG", h, <<>>, <<0, 0, 0, 0>>, FALSE)
             ELSE ParseBody(buf, crc_enabled, h)

\* ParseError parse_frame(const uint8_t* buf, std::size_t len,
\*                        bool crc_enabled, ParsedFrame& out)
parse_frame(buf, crc_enabled) ==
    IF Len(buf) < FRAME_HEADER_SIZE
    THEN ParseResult("TOO_SHORT", NoHeader, <<>>, <<0, 0, 0, 0>>, FALSE)
    ELSE LET h == deserialize_header(buf)
         IN  IF h.version # PROTOCOL_VERSION
             THEN ParseResult("BAD_VERSION", h, <<>>, <<0, 0, 0, 0>>, FALSE)
             ELSE IF BadMsgType(h.msg_type)
             THEN ParseResult("BAD_MSG_TYPE", h, <<>>, <<0, 0, 0, 0>>, FALSE)
             ELSE IF h.payload_len > MAX_PAYLOAD_SIZE
             THEN ParseResult("PAYLOAD_TOO_LONG", h, <<>>, <<0, 0, 0, 0>>, FALSE)
             ELSE IF Len(buf) < Expected(h.payload_len, crc_enabled)
             THEN ParseResult("TRUNCATED", h, <<>>, <<0, 0, 0, 0>>, FALSE)
             ELSE ParseBody(buf, crc_enabled, h)

(***************************************************************************)
(* The buffers given to parse_frame                                        *)
(***************************************************************************)
\* n bytes of value b
Bytes(n, b) == [i \in 1..n |-> b]

\* build_frame of the parser's tests: header, the payload_len bytes of the
\* payload, and the CRC of the two when append_crc
build_frame(hdr, payload, append_crc) ==
    LET body == serialize_header(hdr) \o payload
    IN  IF append_crc THEN body \o crc32(body) ELSE body

\* buf[buf.size() - 1] ^= 0xFF
CorruptLast(buf) == [buf EXCEPT ![Len(buf)] = 255 - @]

\* the first n bytes of buf, and all of it when it is shorter
Cut(buf, n) == SubSeq(buf, 1, IF n < Len(buf) THEN n ELSE Len(buf))

\* the headers: the version right or wrong, the message type below, at
\* either end of and above the valid range, payload_len small or at and
\* above MAX_PAYLOAD_SIZE
Versions == {PROTOCOL_VERSION, PROTOCOL_VERSION + 1}

MsgTypes == {MsgType_PLOT - 1, MsgType_PLOT, MsgType_ENGAGEMENT, MsgType_ENGAGEMENT + 1}

Headers(payload_lens) ==
    {TelemetryHeader(v, mt, 1, U32Of(0), Bytes(8, 0), n) :
        v \in Versions, mt \in MsgTypes, n \in payload_lens}

\* the frames of a header with a small payload: built with its CRC and
\* followed by up to MaxExtra more bytes, the CRC right or wrong, cut at
\* every length from the header's on
SmallFrames ==
    UNION {LET whole == build_frame(h, Bytes(h.payload_len, 0), TRUE) \o Bytes(MaxExtra, 0)
               crc_end == FRAME_HEADER_SIZE + h.payload_len + FRAME_CRC_SIZE
               bad == [whole EXCEPT ![crc_end] = 255 - @]
           IN  {Cut(w, n) : w \in {whole, bad}, n \in FRAME_HEADER_SIZE..Len(whole)}
           : h \in Headers(0..MaxFramePayload)}

\* buffers of a header alone, or a header and four bytes, whose payload_len
\* is at or above the limit
HeaderOnly ==
    {serialize_header(h) \o Bytes(n, 0) :
        h \in Headers({MAX_PAYLOAD_SIZE, MAX_PAYLOAD_SIZE + 1}), n \in {0, FRAME_CRC_SIZE}}

\* the frames with the largest payload: without CRC, with it, with a wrong
\* one, and with MaxExtra bytes after it
LargeFrames ==
    LET h == TelemetryHeader(PROTOCOL_VERSION, MsgType_PLOT, 1, U32Of(0), Bytes(8, 0),
                             MAX_PAYLOAD_SIZE)
        whole == build_frame(h, Bytes(MAX_PAYLOAD_SIZE, 0), TRUE)
    IN  {Cut(whole, FRAME_HEADER_SIZE + MAX_PAYLOAD_SIZE), whole, CorruptLast(whole),
         whole \o Bytes(MaxExtra, 0)}

\* buffers shorter than a header
ShortBuffers == {Bytes(0, 0), Bytes(FRAME_HEADER_SIZE - 1, 0)}

ParseInputs == ShortBuffers \cup SmallFrames \cup HeaderOnly \cup LargeFrames

ParseInit ==
    /\ parse_buf = <<>>
    /\ parse_crc_enabled = FALSE
    /\ parse_ret = ParseResult("NONE", NoHeader, <<>>, <<0, 0, 0, 0>>, FALSE)

\* a call parse_frame(buf, len, crc_enabled, out); the parser keeps no
\* state, so one call is made
ParseCall ==
    \E buf \in ParseInputs, crc_enabled \in BOOLEAN :
        /\ parse_ret.err = "NONE"
        /\ parse_buf' = buf
        /\ parse_crc_enabled' = crc_enabled
        /\ parse_ret' = parse_frame(buf, crc_enabled)
        /\ UNCHANGED <<trackerVars, statsVars, mtVars, busVars, framerVars, nodeVars,
                       gwVars, handlerVars, procVars, recVars, replayVars, simVars>>

(***************************************************************************)
(* Gateway::process_frame (src/src/gateway/gateway.cpp).  The gateway's    *)
(* tracker_ and stats_ are values here: a map from source id to            *)
(* SourceState, and the global_ and sources_ of the StatsManager.          *)
(***************************************************************************)
\* the value of a uint32_t, for the sequence numbers of the frames below
U32Val(x) == x.hi * HALF + x.lo

\* a StatsManager after construction
StatsManager0 == [global |-> GlobalStats0, sources |-> <<>>]

\* get_or_create_source(src_id) on the StatsManager st
SourceOf(st, src_id) ==
    IF src_id \in DOMAIN st.sources THEN st.sources[src_id] ELSE SourceStats0(src_id)

\* st with global_ = g and the entry of src_id = s
WithStats(st, g, src_id, s) ==
    [global |-> g,
     sources |-> [i \in DOMAIN st.sources \cup {src_id} |->
                     IF i = src_id THEN s ELSE st.sources[i]]]

\* record_rx that counts the timestamp's thousands into rx_total
record_rx_CountsTime(st, src_id, seq, ts_ns) ==
    WithStats(st, [st.global EXCEPT !.rx_total = @ + ts_ns \div 1000], src_id,
              [SourceOf(st, src_id) EXCEPT !.rx_count = @ + 1, !.last_seq = seq,
                                           !.last_ts_ns = ts_ns])

\* stats_.record_rx(src_id, seq, ts_ns)
record_rx(st, src_id, seq, ts_ns) ==
    WithStats(st, [st.global EXCEPT !.rx_total = @ + 1], src_id,
              [SourceOf(st, src_id) EXCEPT !.rx_count = @ + 1, !.last_seq = seq,
                                           !.last_ts_ns = ts_ns])

\* stats_.record_malformed(src_id)
record_malformed(st, src_id) ==
    WithStats(st, [st.global EXCEPT !.malformed_total = @ + 1], src_id,
              [SourceOf(st, src_id) EXCEPT !.malformed = @ + 1])

\* stats_.record_gap(src_id, gap_size)
record_gap(st, src_id, gap_size) ==
    WithStats(st, [st.global EXCEPT !.gap_total = @ + gap_size], src_id,
              [SourceOf(st, src_id) EXCEPT !.gaps = @ + gap_size])

\* stats_.record_reorder(src_id)
record_reorder(st, src_id) ==
    WithStats(st, [st.global EXCEPT !.reorder_total = @ + 1], src_id,
              [SourceOf(st, src_id) EXCEPT !.reorders = @ + 1])

\* stats_.record_duplicate(src_id)
record_duplicate(st, src_id) ==
    WithStats(st, [st.global EXCEPT !.duplicate_total = @ + 1], src_id,
              [SourceOf(st, src_id) EXCEPT !.duplicates = @ + 1])

\* stats_.record_crc_fail(src_id)
record_crc_fail(st, src_id) ==
    WithStats(st, [st.global EXCEPT !.crc_fail_total = @ + 1], src_id,
              [SourceOf(st, src_id) EXCEPT !.malformed = @ + 1])

\* tracker_.track(src_id, seq) on the tracker tr: the tracker left and the
\* SeqEvent returned
track(tr, src_id, seq) ==
    LET s == IF src_id \in DOMAIN tr THEN tr[src_id] ELSE SourceState0
        r == TrackStep(s, src_id, seq)
    IN  [tracker |-> [i \in DOMAIN tr \cup {src_id} |->
                         IF i = src_id THEN r.st ELSE tr[i]],
         ev |-> r.ev]

\* the EventRecord publish_event gives to events_.publish, without its
\* timestamp and detail text
EventRecord(id, category, severity) ==
    [id |-> id, category |-> category, severity |-> severity]

\* the err != ParseError::OK branch of process_frame that does not count a
\* CRC mismatch as a CRC failure
ParseFailed_NoCrcFail(st, err) ==
    [stats |-> record_malformed(st, 0),
     events |-> IF err = "CRC_MISMATCH"
                THEN <<EventRecord("EVT_CRC_FAIL", "NETWORK", "WARN")>>
                ELSE <<EventRecord("EVT_FRAME_MALFORMED", "NETWORK", "WARN")>>]

\* the err != ParseError::OK branch of process_frame: the stats left and
\* the events published
ParseFailed(st, err) ==
    IF err = "CRC_MISMATCH"
    THEN [stats |-> record_crc_fail(record_malformed(st, 0), 0),
          events |-> <<EventRecord("EVT_CRC_FAIL", "NETWORK", "WARN")>>]
    ELSE [stats |-> record_malformed(st, 0),
          events |-> <<EventRecord("EVT_FRAME_MALFORMED", "NETWORK", "WARN")>>]

\* the switch on seq_result.result that counts a gap as one
SeqAnomaly_GapCountsOne(st, src_id, ev) ==
    CASE ev.result = "FIRST" ->
            [stats |-> st,
             events |-> <<EventRecord("EVT_SOURCE_ONLINE", "NETWORK", "INFO")>>]
      [] ev.result = "GAP" ->
            [stats |-> record_gap(st, src_id, 1),
             events |-> <<EventRecord("EVT_SEQ_GAP", "NETWORK", "WARN")>>]
      [] ev.result = "REORDER" ->
            [stats |-> record_reorder(st, src_id),
             events |-> <<EventRecord("EVT_SEQ_REORDER", "NETWORK", "WARN")>>]
      [] ev.result = "DUPLICATE" ->
            [stats |-> record_duplicate(st, src_id), events |-> <<>>]
      [] OTHER -> [stats |-> st, events |-> <<>>]

\* the switch on seq_result.result of process_frame
SeqAnomaly(st, src_id, ev) ==
    CASE ev.result = "FIRST" ->
            [stats |-> st,
             events |-> <<EventRecord("EVT_SOURCE_ONLINE", "NETWORK", "INFO")>>]
      [] ev.result = "GAP" ->
            [stats |-> record_gap(st, src_id, U32Val(ev.gap_size)),
             events |-> <<EventRecord("EVT_SEQ_GAP", "NETWORK", "WARN")>>]
      [] ev.result = "REORDER" ->
            [stats |-> record_reorder(st, src_id),
             events |-> <<EventRecord("EVT_SEQ_REORDER", "NETWORK", "WARN")>>]
      [] ev.result = "DUPLICATE" ->
            [stats |-> record_duplicate(st, src_id), events |-> <<>>]
      [] OTHER -> [stats |-> st, events |-> <<>>]

\* sizeof of the payload structs of protocol.h
SizeofPlotPayload == 21
SizeofTrackPayload == 25
SizeofHeartbeatPayload == 11
SizeofEngagementPayload == 13

\* the values of SubsystemState
SubsystemState_OK == 0
SubsystemState_DEGRADED == 1
SubsystemState_ERROR == 2
SubsystemState_OFFLINE == 3

\* deserialize_heartbeat(payload_ptr).state: the byte after subsystem_id
HeartbeatState(payload) == payload[3]

\* the switch on the message type of process_frame: the events published
ByMsgType(h, payload) ==
    CASE h.msg_type = MsgType_TRACK /\ h.payload_len >= SizeofTrackPayload ->
            <<EventRecord("EVT_TRACK_UPDATE", "TRACKING", "DEBUG")>>
      [] h.msg_type = MsgType_PLOT /\ h.payload_len >= SizeofPlotPayload ->
            <<EventRecord("EVT_TRACK_NEW", "TRACKING", "DEBUG")>>
      [] h.msg_type = MsgType_HEARTBEAT /\ h.payload_len >= SizeofHeartbeatPayload ->
            LET state == HeartbeatState(payload)
            IN  IF state = SubsystemState_DEGRADED
                THEN <<EventRecord("EVT_HEARTBEAT_DEGRADE", "HEALTH", "WARN")>>
                ELSE IF state = SubsystemState_ERROR \/ state = SubsystemState_OFFLINE
                THEN <<EventRecord("EVT_HEARTBEAT_ERROR", "HEALTH", "ALARM")>>
                ELSE <<EventRecord("EVT_HEARTBEAT_OK", "HEALTH", "DEBUG")>>
      [] h.msg_type = MsgType_ENGAGEMENT /\ h.payload_len >= SizeofEngagementPayload ->
            <<EventRecord("EVT_WEAPON_STATUS", "ENGAGEMENT", "INFO")>>
      [] OTHER -> <<>>

(***************************************************************************)
(* The frames given to the gateway                                         *)
(***************************************************************************)
\* the header of a frame of source src_id with sequence number seq
GwHeader(msg_type, src_id, seq, payload_len) ==
    TelemetryHeader(PROTOCOL_VERSION, msg_type, src_id, U32Of(seq), Bytes(8, 0),
                    payload_len)

\* a HeartbeatPayload of subsystem 1 in the given state, serialized
HeartbeatBytes(state) == <<1, 0, state, 0, 0, 0, 0, 0, 0, 0, 0>>

\* track frames without payload, with their CRC
TrackFrames ==
    {build_frame(GwHeader(MsgType_TRACK, src_id, seq, 0), <<>>, TRUE) :
        src_id \in 1..NumGwSrc, seq \in 0..MaxGwSeq}

\* heartbeat frames of source 1, one for each SubsystemState, with their CRC
HeartbeatFrames ==
    {build_frame(GwHeader(MsgType_HEARTBEAT, 1, 1, SizeofHeartbeatPayload),
                 HeartbeatBytes(state), TRUE) :
        state \in {SubsystemState_OK, SubsystemState_DEGRADED, SubsystemState_OFFLINE}}

\* frames that fail parsing when CRC validation is on: an empty and a short
\* buffer, a wrong version, a frame without its CRC, a frame with a wrong CRC
BadFrames ==
    LET good == build_frame(GwHeader(MsgType_TRACK, 1, 1, 0), <<>>, TRUE)
    IN  {Cut(good, 0),
         Cut(good, FRAME_HEADER_SIZE - 1),
         [good EXCEPT ![1] = PROTOCOL_VERSION + 1],
         Cut(good, FRAME_HEADER_SIZE),
         CorruptLast(good)}

GwFrames == TrackFrames \cup HeartbeatFrames \cup BadFrames

\* parse_frame(frame, crc_enabled) of every frame above, computed once
Parsed == [frame \in GwFrames |-> [crc_enabled \in BOOLEAN |-> parse_frame(frame, crc_enabled)]]

\* the result of a process_frame call
Processed(tracker, stats, events, err, ev) ==
    [tracker |-> tracker, stats |-> stats, events |-> events, err |-> err, ev |-> ev]

\* void Gateway::process_frame(frame, rx_timestamp_ns) on a gateway whose
\* config_.crc_enabled is crc_enabled, with tracker_ = tr and stats_ = st;
\* config_.record_enabled is false
process_frame(crc_enabled, tr, st, frame, rx_timestamp_ns) ==
    LET parsed == Parsed[frame][crc_enabled]
    IN  IF parsed.err # "OK"
        THEN LET f == ParseFailed(st, parsed.err)
             IN  Processed(tr, f.stats, f.events, parsed.err, NoEvent)
        ELSE LET h == parsed.header
                 t == track(tr, h.src_id, h.seq)
                 a == SeqAnomaly(record_rx(st, h.src_id, h.seq, rx_timestamp_ns),
                                 h.src_id, t.ev)
             IN  Processed(t.tracker, a.stats,
                           a.events \o ByMsgType(h, parsed.payload), "OK", t.ev)

\* the readings of the steady clock
RxTimes == {1000, 2000}

\* GatewayConfig{} (crc_enabled = true, record_enabled = false, replay_path
\* empty)
GatewayConfig0 == [crc_enabled |-> TRUE, record_enabled |-> FALSE, replay_path |-> ""]

NoFrameCall ==
    [frame |-> <<>>, ts |-> 0, err |-> "NONE", ev |-> NoEvent, crc_enabled |-> FALSE]

ProcInit ==
    /\ gw_config_ = GatewayConfig0
    /\ gw_tracker_ = <<>>
    /\ gw_stats_ = StatsManager0
    /\ gw_events = <<>>
    /\ gw_call = NoFrameCall
    /\ gw_frames = 0

\* explicit Gateway(const GatewayConfig& config), before any frame: the
\* gateway copies the configuration it is given
Gateway_Gateway(crc_enabled) ==
    /\ gw_frames = 0
    /\ gw_config_' = [gw_config_ EXCEPT !.crc_enabled = crc_enabled]
    /\ UNCHANGED <<gw_tracker_, gw_stats_, gw_events, gw_call, gw_frames>>
    /\ UNCHANGED <<trackerVars, statsVars, mtVars, busVars, framerVars, nodeVars,
                   gwVars, handlerVars, parseVars, recVars, replayVars, simVars>>

\* process_frame(frame, rx_timestamp_ns) as the run loop calls it
Gateway_process_frame(frame, rx_timestamp_ns) ==
    LET r == process_frame(gw_config_.crc_enabled, gw_tracker_, gw_stats_, frame,
                           rx_timestamp_ns)
    IN  /\ gw_frames < MaxGwFrames
        /\ gw_tracker_' = r.tracker
        /\ gw_stats_' = r.stats
        /\ gw_events' = r.events
        /\ gw_call' = [frame |-> frame, ts |-> rx_timestamp_ns, err |-> r.err,
                       ev |-> r.ev, crc_enabled |-> gw_config_.crc_enabled]
        /\ gw_frames' = gw_frames + 1
        /\ UNCHANGED gw_config_
        /\ UNCHANGED <<trackerVars, statsVars, mtVars, busVars, framerVars, nodeVars,
                       gwVars, handlerVars, parseVars, recVars, replayVars, simVars>>

\* handler_.handle(cmd) called by one thread at a time, for a SET CRC
\* command: handle_set updates the handler and the response is returned
CommandHandler_call(cmd) ==
    LET h == handle_set(cmd, [crc_enabled_ |-> crc_enabled_, config_ |-> config_])
    IN  /\ crc_enabled_' = h.crc_enabled_
        /\ config_' = h.config_
        /\ handle_ret' = CommandHandler_handle(cmd)
        /\ UNCHANGED <<trackerVars, statsVars, mtVars, busVars, framerVars, nodeVars,
                       gwVars, pipeVars>>

(***************************************************************************)
(* FrameRecorder (src/src/gateway/frame_recorder.cpp) and                  *)
(* ReplayFrameSource (src/src/replay/replay_engine.cpp).  A record of the  *)
(* file is the 8 bytes of the timestamp, the 4 bytes of the frame length   *)
(* and the frame's bytes.  The recorder's stream is closed before a replay *)
(* opens the file, and no replay has the file open when the recorder       *)
(* truncates it.                                                           *)
(***************************************************************************)
\* uint32_t as four bytes with the most significant byte first
LE4_BigEndian(n) ==
    <<n \div 16777216, (n \div 65536) % 256, (n \div 256) % 256, n % 256>>

\* uint32_t as four bytes and back, little-endian
LE4(n) == <<n % 256, (n \div 256) % 256, (n \div 65536) % 256, n \div 16777216>>

U32At(buf, i) ==
    buf[i] + 256 * buf[i + 1] + 65536 * buf[i + 2] + 16777216 * buf[i + 3]

\* the bytes record writes for a frame: timestamp, length, data
RecordBytes(ts, frame) == ts \o LE4(Len(frame)) \o frame

\* where a record's timestamp ends and where its length ends
RECORD_TS_SIZE == 8
RECORD_HEAD_SIZE == 12

\* the frames recorded: an empty one, track frames of source 1 with their
\* CRC, and one with a wrong CRC
RecSeqs == {0} \cup (2..MaxRecSeq)

RecFrames ==
    {<<>>, CorruptLast(build_frame(GwHeader(MsgType_TRACK, 1, 1, 0), <<>>, TRUE))}
        \cup {build_frame(GwHeader(MsgType_TRACK, 1, seq, 0), <<>>, TRUE) : seq \in RecSeqs}

\* the timestamp recorded with a frame: 1000, as eight bytes
RecTimes == {<<232, 3, 0, 0, 0, 0, 0, 0>>}

\* the paths given to open: the record file, and one that cannot be opened
RecordPath == "session.bin"
Paths == {RecordPath, "/nonexistent/session.bin"}

\* how many bytes of a record reach the file when writing it fails
FailPrefixes(rec) ==
    {0, RECORD_TS_SIZE} \cup (IF Len(rec) > RECORD_HEAD_SIZE THEN {RECORD_HEAD_SIZE} ELSE {})

RecCall(op, ret) ==
    /\ rec_call' = [op |-> op, ret |-> ret]
    /\ rec_calls' = rec_calls + 1
    /\ UNCHANGED <<trackerVars, statsVars, mtVars, busVars, framerVars, nodeVars,
                   gwVars, handlerVars, parseVars, procVars, replayVars, simVars>>

RecorderInit ==
    /\ rec_file_ = [is_open |-> FALSE, good |-> TRUE]
    /\ frame_count_ = 0
    /\ disk = [exists |-> FALSE, bytes |-> <<>>]
    /\ rec_call = [op |-> "none", ret |-> FALSE]
    /\ rec_true = 0
    /\ rec_frames = <<>>
    /\ rec_calls = 0

\* no replay has the file open
NoReader == \A i \in DOMAIN replay : ~replay[i].is_open

\* bool FrameRecorder::open(const std::string& path)
FrameRecorder_open(path) ==
    /\ rec_calls < MaxRecCalls
    /\ NoReader
    /\ rec_true' = 0
    /\ IF path = RecordPath
       THEN /\ rec_file_' = [is_open |-> TRUE, good |-> TRUE]
            /\ disk' = [exists |-> TRUE, bytes |-> <<>>]
            /\ rec_frames' = <<>>
            /\ frame_count_' = 0
            /\ RecCall("open", TRUE)
       ELSE /\ rec_file_' = [is_open |-> FALSE, good |-> FALSE]
            /\ UNCHANGED <<disk, rec_frames, frame_count_>>
            /\ RecCall("open", FALSE)

\* bool FrameRecorder::record(rx_timestamp_ns, frame_data, frame_len): on a
\* stream that is open and good the three writes succeed, or one of them
\* fails and leaves the stream not good; on a stream that is not good they
\* write nothing
FrameRecorder_record(ts, frame) ==
    /\ rec_calls < MaxRecCalls
    /\ IF ~rec_file_.is_open \/ ~rec_file_.good
       THEN /\ UNCHANGED <<rec_file_, frame_count_, disk, rec_true, rec_frames>>
            /\ RecCall("record", FALSE)
       ELSE \/ /\ disk' = [disk EXCEPT !.bytes = @ \o RecordBytes(ts, frame)]
               /\ frame_count_' = frame_count_ + 1
               /\ rec_true' = rec_true + 1
               /\ rec_frames' = Append(rec_frames, frame)
               /\ UNCHANGED rec_file_
               /\ RecCall("record", TRUE)
            \/ \E k \in FailPrefixes(RecordBytes(ts, frame)) :
                  /\ disk' = [disk EXCEPT !.bytes = @ \o SubSeq(RecordBytes(ts, frame), 1, k)]
                  /\ rec_file_' = [rec_file_ EXCEPT !.good = FALSE]
                  /\ UNCHANGED <<frame_count_, rec_true, rec_frames>>
                  /\ RecCall("record", FALSE)

\* void FrameRecorder::close()
FrameRecorder_close ==
    /\ rec_calls < MaxRecCalls
    /\ rec_file_' = [rec_file_ EXCEPT !.is_open = FALSE]
    /\ UNCHANGED <<frame_count_, disk, rec_true, rec_frames>>
    /\ RecCall("close", FALSE)

\* the replay passes
Passes == {1, 2}

\* ReplayFrameSource{}
Replay0 ==
    [is_open |-> FALSE, pos |-> 0, speed_multiplier_ |-> 1, frames_replayed_ |-> 0,
     done_ |-> FALSE, first_frame_ |-> TRUE]

\* void ReplayFrameSource::close()
close(r) == [r EXCEPT !.is_open = FALSE, !.done_ = TRUE]

\* bool ReplayFrameSource::open(path) on the record file d: the source left
\* and the value returned
open(r, d) ==
    IF d.exists
    THEN [r |-> [close(r) EXCEPT !.is_open = TRUE, !.pos = 0, !.frames_replayed_ = 0,
                                 !.done_ = FALSE, !.first_frame_ = TRUE],
          ret |-> TRUE]
    ELSE [r |-> close(r), ret |-> FALSE]

\* file_.read of n bytes at the position of r succeeds when the file has
\* them
CanRead(r, bytes, n) == r.pos + n <= Len(bytes)

Received(r, buf, ret) == [r |-> r, buf |-> buf, ret |-> ret]

\* receive that sets done_ only when a read fails
receive_DoneOnFailedRead(r, bytes) ==
    IF ~r.is_open \/ r.done_ THEN Received(r, <<>>, FALSE)
    ELSE IF ~CanRead(r, bytes, RECORD_HEAD_SIZE)
    THEN Received([r EXCEPT !.done_ = TRUE], <<>>, FALSE)
    ELSE LET len == U32At(bytes, r.pos + RECORD_TS_SIZE + 1)
             start == r.pos + RECORD_HEAD_SIZE
         IN  IF len > 0 /\ start + len > Len(bytes)
             THEN Received([r EXCEPT !.done_ = TRUE], <<>>, FALSE)
             ELSE Received([r EXCEPT !.pos = start + len,
                                     !.first_frame_ = @ /\ r.speed_multiplier_ = 0,
                                     !.frames_replayed_ = @ + 1],
                           SubSeq(bytes, start + 1, start + len), TRUE)

\* bool ReplayFrameSource::receive(std::vector<uint8_t>& buf) on a file
\* with these bytes: the source left, buf and the value returned
receive(r, bytes) ==
    IF ~r.is_open \/ r.done_ THEN Received(r, <<>>, FALSE)
    ELSE IF ~CanRead(r, bytes, RECORD_TS_SIZE)
    THEN Received([r EXCEPT !.done_ = TRUE], <<>>, FALSE)
    ELSE IF ~CanRead(r, bytes, RECORD_HEAD_SIZE)
    THEN Received([r EXCEPT !.done_ = TRUE], <<>>, FALSE)
    ELSE LET len == U32At(bytes, r.pos + RECORD_TS_SIZE + 1)
             start == r.pos + RECORD_HEAD_SIZE
         IN  IF len > 0 /\ start + len > Len(bytes)
             THEN Received([r EXCEPT !.done_ = TRUE], <<>>, FALSE)
             ELSE Received([r EXCEPT !.pos = start + len,
                                     !.first_frame_ = @ /\ r.speed_multiplier_ = 0,
                                     !.frames_replayed_ = @ + 1,
                                     !.done_ = (start + len = Len(bytes))],
                           SubSeq(bytes, start + 1, start + len), TRUE)

ReplayInit ==
    /\ replay = [i \in Passes |-> Replay0]
    /\ replay_buf = [i \in Passes |-> <<>>]
    /\ replay_ret = [i \in Passes |-> FALSE]
    /\ replay_out = [i \in Passes |-> <<>>]
    /\ replay_calls = [i \in Passes |-> 0]
    /\ pass_tracker = [i \in Passes |-> <<>>]
    /\ pass_stats = [i \in Passes |-> StatsManager0]

notReplayVars ==
    <<trackerVars, statsVars, mtVars, busVars, framerVars, nodeVars, gwVars,
      handlerVars, parseVars, procVars, recVars, simVars>>

\* replay.open(path) of pass i on the record file
ReplayFrameSource_open(i) ==
    /\ ~rec_file_.is_open
    /\ replay' = [replay EXCEPT ![i] = open(@, disk).r]
    /\ replay_out' = [replay_out EXCEPT ![i] = <<>>]
    /\ replay_calls' = [replay_calls EXCEPT ![i] = 0]
    /\ UNCHANGED <<replay_buf, replay_ret, pass_tracker, pass_stats>>
    /\ UNCHANGED notReplayVars

\* void ReplayFrameSource::set_speed(double multiplier), before the first
\* receive
ReplayFrameSource_set_speed(i, multiplier) ==
    /\ replay_calls[i] = 0
    /\ replay' = [replay EXCEPT ![i].speed_multiplier_ = multiplier]
    /\ UNCHANGED <<replay_buf, replay_ret, replay_out, replay_calls, pass_tracker,
                   pass_stats>>
    /\ UNCHANGED notReplayVars

\* replay.receive(buf) of pass i
ReplayFrameSource_receive(i) ==
    LET got == receive(replay[i], disk.bytes)
    IN  /\ replay_calls[i] < MaxReceives
        /\ replay' = [replay EXCEPT ![i] = got.r]
        /\ replay_buf' = [replay_buf EXCEPT ![i] = got.buf]
        /\ replay_ret' = [replay_ret EXCEPT ![i] = got.ret]
        /\ replay_out' = [replay_out EXCEPT ![i] = IF got.ret THEN Append(@, got.buf) ELSE @]
        /\ replay_calls' = [replay_calls EXCEPT ![i] = @ + 1]
        /\ UNCHANGED <<pass_tracker, pass_stats>>
        /\ UNCHANGED notReplayVars

\* void ReplayFrameSource::close() of pass i
ReplayFrameSource_close(i) ==
    /\ replay[i].is_open
    /\ replay' = [replay EXCEPT ![i] = close(@)]
    /\ UNCHANGED <<replay_buf, replay_ret, replay_out, replay_calls, pass_tracker,
                   pass_stats>>
    /\ UNCHANGED notReplayVars

\* a replay pass begins: a new ReplayFrameSource is opened on the record
\* file and set to speed 0, as Gateway::run does in replay mode, and the
\* pass has a new tracker and a new StatsManager
ReplayPass_start(i) ==
    /\ ~rec_file_.is_open
    /\ disk.exists
    /\ replay_calls[i] = 0
    /\ ~replay[i].is_open
    /\ replay' = [replay EXCEPT ![i] = [open(Replay0, disk).r EXCEPT !.speed_multiplier_ = 0]]
    /\ replay_out' = [replay_out EXCEPT ![i] = <<>>]
    /\ pass_tracker' = [pass_tracker EXCEPT ![i] = <<>>]
    /\ pass_stats' = [pass_stats EXCEPT ![i] = StatsManager0]
    /\ UNCHANGED <<replay_buf, replay_ret, replay_calls>>
    /\ UNCHANGED notReplayVars

\* one turn of the loop of a replay pass: receive, and on a frame
\* process_frame with the reading of the clock, on the tracker and the
\* StatsManager of the pass
ReplayPass_step(i, rx_timestamp_ns) ==
    LET got == receive(replay[i], disk.bytes)
        p == process_frame(GatewayConfig0.crc_enabled, pass_tracker[i], pass_stats[i],
                           got.buf, rx_timestamp_ns)
    IN  /\ replay[i].is_open
        /\ ~replay[i].done_
        /\ replay' = [replay EXCEPT ![i] = got.r]
        /\ replay_buf' = [replay_buf EXCEPT ![i] = got.buf]
        /\ replay_ret' = [replay_ret EXCEPT ![i] = got.ret]
        /\ replay_out' = [replay_out EXCEPT ![i] = IF got.ret THEN Append(@, got.buf) ELSE @]
        /\ replay_calls' = [replay_calls EXCEPT ![i] = @ + 1]
        /\ pass_tracker' = [pass_tracker EXCEPT ![i] = IF got.ret THEN p.tracker ELSE @]
        /\ pass_stats' = [pass_stats EXCEPT ![i] = IF got.ret THEN p.stats ELSE @]
        /\ UNCHANGED notReplayVars

(***************************************************************************)
(* FaultInjector (src/src/sensor_sim/fault_injector.cpp).  A frame is a    *)
(* sequence of bytes.  pct(rng_) is a number in [0, 100): the test         *)
(* pct(rng_) < p is false when p is 0, true when p is 100, and either      *)
(* otherwise; every index and position drawn from rng_ can be any value of *)
(* its range.  apply works on the caller's vector in place, one stage      *)
(* after the other.                                                        *)
(***************************************************************************)
\* the percentages a FaultConfig is made of
Percents == {0, 50, 100}

FaultConfig(loss_pct, reorder_pct, duplicate_pct, corrupt_pct) ==
    [loss_pct |-> loss_pct, reorder_pct |-> reorder_pct,
     duplicate_pct |-> duplicate_pct, corrupt_pct |-> corrupt_pct]

\* FaultStats{}
FaultStats0 == [dropped |-> 0, reordered |-> 0, duplicated |-> 0, corrupted |-> 0]

\* the batches given to apply: n frames that differ, as the tests' make_frames
\* builds them, and a batch with an empty frame
FaultBatch(n) == [i \in 1..n |-> <<i>>]

\* the FaultConfigs an injector is built with: at most two stages active
FaultConfigs ==
    {config \in {FaultConfig(l, r, d, c) : l \in Percents, r \in Percents,
                                          d \in Percents, c \in Percents} :
        Cardinality({f \in DOMAIN config : config[f] > 0}) <= 2}

FaultBatches == {FaultBatch(n) : n \in 0..MaxBatch} \cup {<<<<>>, <<1>>>>}

\* the values of pct(rng_) < p
Hit(p) == IF p = 0 THEN {FALSE} ELSE IF p = 100 THEN {TRUE} ELSE BOOLEAN

\* the subsets of the indices of frames that the draws of a stage can pick
Picked(frames, p) == {S \in SUBSET (1..Len(frames)) : \A i \in 1..Len(frames) : (i \in S) \in Hit(p)}

\* apply that keeps the counts of the apply before
apply_reset_Keeps(stats) == stats

\* apply, line 10: last_stats_ = FaultStats{}
apply_reset(stats) == FaultStats0

\* frame[byte_dist(rng_)] ^= 0xFF
FlipByte(frame, k) == [frame EXCEPT ![k] = 255 - @]

\* apply, lines 19-25: the batches the corruption stage can leave when S is
\* the set of frames its draws pick; an empty frame is left alone
RECURSIVE CorruptPicked(_, _)
CorruptPicked(frames, S) ==
    IF S = {} THEN {frames}
    ELSE LET i == CHOOSE j \in S : TRUE
         IN  IF frames[i] = <<>> THEN CorruptPicked(frames, S \ {i})
             ELSE UNION {CorruptPicked([frames EXCEPT ![i] = FlipByte(@, k)], S \ {i}) :
                            k \in 1..Len(frames[i])}

\* frames.insert(frames.begin() + pos, dup)
InsertAt(frames, pos, dup) ==
    SubSeq(frames, 1, pos) \o <<dup>> \o SubSeq(frames, pos + 1, Len(frames))

\* apply, lines 38-42: the batches left when the extras are inserted one
\* after the other, each at a position drawn in 0..frames.size()
RECURSIVE InsertExtras(_, _)
InsertExtras(frames, extras) ==
    IF extras = <<>> THEN {frames}
    ELSE UNION {InsertExtras(InsertAt(frames, pos, Head(extras)), Tail(extras)) :
                   pos \in 0..Len(frames)}

\* the frames of the indices in S, in the order of the batch
RECURSIVE Select(_, _, _)
Select(frames, S, i) ==
    IF i > Len(frames) THEN <<>>
    ELSE (IF i \in S THEN <<frames[i]>> ELSE <<>>) \o Select(frames, S, i + 1)

\* std::swap(frames[i], frames[i + 1]), with i counted from 1
Swap(frames, i) == [frames EXCEPT ![i] = frames[i + 1], ![i + 1] = frames[i]]

\* the reorder loop without the ++i of line 64
AfterSwap_NoSkip(i) == i + 1

\* apply, lines 60 and 64: the index the reorder loop goes on with after it
\* has swapped the pair at i
AfterSwap(i) == i + 2

\* apply, lines 60-66: the batches and swap counts the reorder loop can leave
\* from index i on (counted from 1), n swaps made so far
RECURSIVE ReorderFrom(_, _, _, _)
ReorderFrom(frames, i, n, p) ==
    IF i + 1 > Len(frames) THEN {[frames |-> frames, reordered |-> n]}
    ELSE UNION {IF hit THEN ReorderFrom(Swap(frames, i), AfterSwap(i), n + 1, p)
                       ELSE ReorderFrom(frames, i + 1, n, p) : hit \in Hit(p)}

FaultInit ==
    /\ fi_config_ = FaultConfig(0, 0, 0, 0)
    /\ last_stats_ = FaultStats0
    /\ fi_frames = <<>>
    /\ fi_pc = "idle"
    /\ fi_call = [in |-> <<>>, before_reorder |-> <<>>, stats_before |-> FaultStats0]
    /\ fi_calls = 0

\* FaultInjector(config, seed), before any apply
FaultInjector_FaultInjector(config) ==
    /\ fi_calls = 0
    /\ fi_pc = "idle"
    /\ fi_config_' = config
    /\ UNCHANGED <<last_stats_, fi_frames, fi_pc, fi_call, fi_calls>>
    /\ UNCHANGED notFaultVars

\* apply(frames), lines 10-13: the counts are reset; an empty batch is
\* returned at once
FaultInjector_apply(frames) ==
    /\ fi_pc = "idle"
    /\ fi_calls < MaxApply
    /\ last_stats_' = apply_reset(last_stats_)
    /\ fi_frames' = frames
    /\ fi_pc' = IF frames = <<>> THEN "idle" ELSE "corrupt"
    /\ fi_call' = [in |-> frames, before_reorder |-> frames, stats_before |-> last_stats_]
    /\ fi_calls' = fi_calls + 1
    /\ UNCHANGED fi_config_
    /\ UNCHANGED notFaultVars

\* apply, lines 18-26: corruption
FaultInjector_apply_corrupt ==
    /\ fi_pc = "corrupt"
    /\ fi_pc' = "duplicate"
    /\ IF fi_config_.corrupt_pct > 0
       THEN \E S \in Picked(fi_frames, fi_config_.corrupt_pct) :
                /\ fi_frames' \in CorruptPicked(fi_frames, S)
                /\ last_stats_' = [last_stats_ EXCEPT !.corrupted =
                       @ + Cardinality({i \in S : fi_frames[i] # <<>>})]
       ELSE UNCHANGED <<fi_frames, last_stats_>>
    /\ UNCHANGED <<fi_config_, fi_call, fi_calls>>
    /\ UNCHANGED notFaultVars

\* apply, lines 29-43: duplication
FaultInjector_apply_duplicate ==
    /\ fi_pc = "duplicate"
    /\ fi_pc' = "loss"
    /\ IF fi_config_.duplicate_pct > 0
       THEN \E S \in Picked(fi_frames, fi_config_.duplicate_pct) :
                /\ fi_frames' \in InsertExtras(fi_frames, Select(fi_frames, S, 1))
                /\ last_stats_' = [last_stats_ EXCEPT !.duplicated = @ + Cardinality(S)]
       ELSE UNCHANGED <<fi_frames, last_stats_>>
    /\ UNCHANGED <<fi_config_, fi_call, fi_calls>>
    /\ UNCHANGED notFaultVars

\* apply, lines 46-56: loss; remove_if keeps the other frames in order
FaultInjector_apply_loss ==
    /\ fi_pc = "loss"
    /\ fi_pc' = "reorder"
    /\ IF fi_config_.loss_pct > 0
       THEN \E S \in Picked(fi_frames, fi_config_.loss_pct) :
                /\ fi_frames' = Select(fi_frames, (1..Len(fi_frames)) \ S, 1)
                /\ last_stats_' = [last_stats_ EXCEPT !.dropped = @ + Cardinality(S)]
                /\ fi_call' = [fi_call EXCEPT !.before_reorder = fi_frames']
       ELSE /\ UNCHANGED <<fi_frames, last_stats_>>
            /\ fi_call' = [fi_call EXCEPT !.before_reorder = fi_frames]
    /\ UNCHANGED <<fi_config_, fi_calls>>
    /\ UNCHANGED notFaultVars

\* apply, lines 59-68: reorder; apply returns
FaultInjector_apply_reorder ==
    /\ fi_pc = "reorder"
    /\ fi_pc' = "idle"
    /\ IF fi_config_.reorder_pct > 0 /\ Len(fi_frames) >= 2
       THEN \E r \in ReorderFrom(fi_frames, 1, 0, fi_config_.reorder_pct) :
                /\ fi_frames' = r.frames
                /\ last_stats_' = [last_stats_ EXCEPT !.reordered = @ + r.reordered]
       ELSE UNCHANGED <<fi_frames, last_stats_>>
    /\ UNCHANGED <<fi_config_, fi_call, fi_calls>>
    /\ UNCHANGED notFaultVars

(***************************************************************************)
(* MeasurementGenerator (src/src/sensor_sim/measurement_generator.cpp) and *)
(* the loop that feeds its frames to parse_frame, a SequenceTracker and a  *)
(* StatsManager (src/tests/test_pipeline_integration.cpp).  Of a           *)
(* WorldObject the model keeps its id and whether its detection            *)
(* probability p_detect is 1.0; the fields of a payload that are computed  *)
(* from the object's position and the noise drawn are left 0.  A timestamp *)
(* is its eight bytes.                                                     *)
(***************************************************************************)
\* the src_id the generator is built with (0x0012)
GenSrcId == 18

\* timestamp_ns = 1000000
GenTimes == {<<64, 66, 15, 0, 0, 0, 0, 0>>}

\* a uint32_t [hi, lo] as four bytes, little-endian
U32Bytes(x) == LE2(x.lo) \o LE2(x.hi)

\* the objects given to generate_plots and generate_tracks: object 1 is
\* close enough for p_detect = 1.0, object 2 is not
WorldObject(id) == [id |-> id, certain |-> id = 1]

\* the ids of the objects of the world
ObjectIds == {1, 2}

\* the lists of at most n objects of the world, no object twice
RECURSIVE ObjectLists(_)
ObjectLists(n) ==
    IF n = 0 THEN {<<>>}
    ELSE LET shorter == ObjectLists(n - 1)
         IN  shorter \cup
             UNION {{l \o <<WorldObject(id)>> :
                        id \in {i \in ObjectIds : \A j \in 1..Len(l) : l[j].id # i}} :
                    l \in {k \in shorter : Len(k) = n - 1}}

\* the lists of objects given to generate_plots and generate_tracks
GenObjectLists == ObjectLists(MaxObjects)

\* MeasurementGenerator(src_id, seed)
MeasurementGenerator0 ==
    [src_id_ |-> GenSrcId, seq_ |-> U32Of(0), plot_id_ |-> U32Of(1),
     track_update_counts_ |-> [id \in ObjectIds |-> 0]]

\* a generator left by a call, with the frames the call made
Generated(g, frames) == [g |-> g, frames |-> frames]

\* build_frame that does not advance seq_
MeasurementGenerator_build_frame_KeepsSeq(g, type, payload, timestamp_ns) ==
    Generated(g,
              <<serialize_header(TelemetryHeader(PROTOCOL_VERSION, type, g.src_id_, g.seq_,
                                                 timestamp_ns, Len(payload)))
                  \o payload>>)

\* MeasurementGenerator::build_frame(type, payload, payload_len,
\* timestamp_ns): hdr.seq = seq_++
MeasurementGenerator_build_frame(g, type, payload, timestamp_ns) ==
    Generated([g EXCEPT !.seq_ = U32Inc(@)],
              <<serialize_header(TelemetryHeader(PROTOCOL_VERSION, type, g.src_id_, g.seq_,
                                                 timestamp_ns, Len(payload)))
                  \o payload>>)

\* struct PlotPayload with plot_id set
PlotBytes(plot_id) == U32Bytes(plot_id) \o Bytes(SizeofPlotPayload - 4, 0)

\* struct TrackPayload with track_id and update_count set
TrackBytes(track_id, update_count) ==
    U32Bytes(U32Of(track_id)) \o Bytes(SizeofTrackPayload - 6, 0) \o LE2(update_count)

\* struct HeartbeatPayload with subsystem_id, state = OK, cpu_pct and mem_pct
\* set; uptime_s is 0 for the timestamps used
GenHeartbeatBytes(subsystem_id, cpu_pct, mem_pct) ==
    LE2(subsystem_id) \o <<SubsystemState_OK, cpu_pct, mem_pct>> \o Bytes(6, 0)

\* generate_plots from object i on, when the detection test passes for the
\* objects whose index is in detected
RECURSIVE PlotsFrom(_, _, _, _, _)
PlotsFrom(g, objects, detected, i, timestamp_ns) ==
    IF i > Len(objects) THEN Generated(g, <<>>)
    ELSE IF i \notin detected THEN PlotsFrom(g, objects, detected, i + 1, timestamp_ns)
    ELSE LET b == MeasurementGenerator_build_frame(
                      [g EXCEPT !.plot_id_ = U32Inc(@)], MsgType_PLOT,
                      PlotBytes(g.plot_id_), timestamp_ns)
             rest == PlotsFrom(b.g, objects, detected, i + 1, timestamp_ns)
         IN  Generated(rest.g, b.frames \o rest.frames)

\* generate_tracks from object i on
RECURSIVE TracksFrom(_, _, _, _)
TracksFrom(g, objects, i, timestamp_ns) ==
    IF i > Len(objects) THEN Generated(g, <<>>)
    ELSE LET id == objects[i].id
             count == (g.track_update_counts_[id] + 1) % HALF
             b == MeasurementGenerator_build_frame(
                      [g EXCEPT !.track_update_counts_[id] = count], MsgType_TRACK,
                      TrackBytes(id, count), timestamp_ns)
             rest == TracksFrom(b.g, objects, i + 1, timestamp_ns)
         IN  Generated(rest.g, b.frames \o rest.frames)

\* the sets of objects that can pass det_dist(rng_) > p_detect: det_dist is
\* below 1.0, so an object with p_detect = 1.0 always passes
Detections(objects) ==
    {D \in SUBSET (1..Len(objects)) : \A i \in 1..Len(objects) : objects[i].certain => i \in D}

GenInit ==
    /\ mg = MeasurementGenerator0
    /\ mg_call = [op |-> "none", objects |-> 0, frames |-> 0]
    /\ feed_queue = <<>>
    /\ feed_tracker = <<>>
    /\ feed_stats = StatsManager0
    /\ feed_results = <<>>

\* the caller takes the frames a generate call returned, to feed them in
\* the order they were made
Emit(op, objects, r) ==
    /\ Len(feed_results) + Len(feed_queue) + Len(r.frames) <= MaxEmitted
    /\ mg' = r.g
    /\ mg_call' = [op |-> op, objects |-> objects, frames |-> Len(r.frames)]
    /\ feed_queue' = feed_queue \o r.frames
    /\ UNCHANGED <<feed_tracker, feed_stats, feed_results>>
    /\ UNCHANGED notGenVars

\* generate_plots(objects, timestamp_ns)
MeasurementGenerator_generate_plots(objects, timestamp_ns) ==
    \E detected \in Detections(objects) :
        Emit("plots", Len(objects), PlotsFrom(mg, objects, detected, 1, timestamp_ns))

\* generate_tracks(objects, timestamp_ns)
MeasurementGenerator_generate_tracks(objects, timestamp_ns) ==
    Emit("tracks", Len(objects), TracksFrom(mg, objects, 1, timestamp_ns))

\* the values drawn for cpu_pct (of 10..60) and mem_pct (of 20..70): both at
\* the low or both at the high end
LoadDraws == {<<10, 20>>, <<60, 70>>}

\* generate_heartbeat(timestamp_ns)
MeasurementGenerator_generate_heartbeat(timestamp_ns) ==
    \E load \in LoadDraws :
        Emit("heartbeat", 0,
             MeasurementGenerator_build_frame(mg, MsgType_HEARTBEAT,
                 GenHeartbeatBytes(mg.src_id_, load[1], load[2]), timestamp_ns))

\* generate_engagement(weapon_id, mode, assigned_track, rounds, barrel_temp,
\* bursts, timestamp_ns), all of the payload 0
MeasurementGenerator_generate_engagement(timestamp_ns) ==
    Emit("engagement", 0,
         MeasurementGenerator_build_frame(mg, MsgType_ENGAGEMENT,
             Bytes(SizeofEngagementPayload, 0), timestamp_ns))

\* one turn of the loop over the frames: parse_frame without CRC, then the
\* tracker and the counters
Pipeline_feed ==
    /\ feed_queue # <<>>
    /\ LET pf == parse_frame(Head(feed_queue), FALSE)
           h == pf.header
           t == track(feed_tracker, h.src_id, h.seq)
       IN  IF pf.err # "OK"
           THEN /\ feed_stats' = record_malformed(feed_stats, h.src_id)
                /\ feed_results' = Append(feed_results,
                       [result |-> pf.err, msg_type |-> h.msg_type, seq |-> h.seq])
                /\ UNCHANGED feed_tracker
           ELSE /\ feed_tracker' = t.tracker
                /\ feed_stats' = SeqAnomaly(record_rx(feed_stats, h.src_id, h.seq, h.ts_ns),
                                            h.src_id, t.ev).stats
                /\ feed_results' = Append(feed_results,
                       [result |-> t.ev.result, msg_type |-> h.msg_type, seq |-> h.seq])
    /\ feed_queue' = Tail(feed_queue)
    /\ UNCHANGED <<mg, mg_call>>
    /\ UNCHANGED notGenVars

(***************************************************************************)
(* Gateway::run and Gateway::stop (src/src/gateway/gateway.cpp).  run() is *)
(* followed statement by statement where stop(), called from another       *)
(* thread, can fall in between.  In replay mode source_ is the             *)
(* ReplayFrameSource of pass 1, reading the record file; in UDP mode no    *)
(* datagram arrives and every receive times out.  record_enabled is false: *)
(* run() neither opens nor closes the recorder.                            *)
(***************************************************************************)
\* rx_total + malformed_total: the frames process_frame has counted
Counted(st) == st.global.rx_total + st.global.malformed_total

\* history of the run() call last entered, before any run() call
NoRun == [base |-> 0, passed |-> <<>>, stopped |-> FALSE, returned |-> FALSE]

GatewayInit ==
    /\ gw_running_ = FALSE
    /\ gw_should_stop_ = FALSE
    /\ gw_pc = "idle"
    /\ gw_stops = <<>>
    /\ gw_run = NoRun

\* Gateway(config) with config.replay_path the record file, before any run()
\* call and any frame
Gateway_Gateway_replay(crc_enabled) ==
    /\ gw_frames = 0
    /\ gw_pc = "idle"
    /\ gw_run = NoRun
    /\ gw_config_' = [gw_config_ EXCEPT !.crc_enabled = crc_enabled,
                                        !.replay_path = RecordPath]
    /\ UNCHANGED <<gw_tracker_, gw_stats_, gw_events, gw_call, gw_frames>>
    /\ UNCHANGED <<trackerVars, statsVars, mtVars, busVars, framerVars, nodeVars,
                   gwVars, handlerVars, parseVars, recVars, replayVars, simVars>>

\* void Gateway::run(), lines 20-52: returns at once on a running gateway;
\* the frame source is created: a ReplayFrameSource opened on replay_path and
\* set to speed 0, or a UdpFrameSource bound to the port; run returns when
\* that fails.  A run that goes on is the one gw_run describes from here.
Gateway_run_enter ==
    /\ gw_pc = "idle"
    /\ ~gw_running_
    /\ IF gw_config_.replay_path = ""
       THEN /\ gw_pc' \in {"idle", "store_running"}
            /\ UNCHANGED replay
       ELSE /\ ~rec_file_.is_open
            /\ gw_frames + Len(rec_frames) <= MaxGwFrames
            /\ gw_pc' = IF open(Replay0, disk).ret THEN "store_running" ELSE "idle"
            /\ replay' = [replay EXCEPT ![1] =
                   IF open(Replay0, disk).ret
                   THEN [open(Replay0, disk).r EXCEPT !.speed_multiplier_ = 0]
                   ELSE @]
    /\ gw_run' = IF gw_pc' = "store_running"
                 THEN [base |-> Counted(gw_stats_), passed |-> <<>>,
                       stopped |-> FALSE, returned |-> FALSE]
                 ELSE gw_run
    /\ replay_out' = [replay_out EXCEPT ![1] = IF gw_pc' = "store_running" THEN <<>> ELSE @]
    /\ replay_calls' = [replay_calls EXCEPT ![1] = IF gw_pc' = "store_running" THEN 0 ELSE @]
    /\ UNCHANGED <<gw_running_, gw_should_stop_, gw_stops>>
    /\ UNCHANGED <<replay_buf, replay_ret, pass_tracker, pass_stats>>
    /\ UNCHANGED <<trackerVars, statsVars, mtVars, busVars, framerVars, nodeVars>>
    /\ UNCHANGED <<handlerVars, parseVars, procVars, recVars, simVars>>

\* run(), line 54: running_.store(true)
Gateway_run_store_running ==
    /\ gw_pc = "store_running"
    /\ gw_running_' = TRUE
    /\ gw_pc' = "store_should_stop"
    /\ UNCHANGED <<gw_should_stop_, gw_stops, gw_run>>
    /\ UNCHANGED <<trackerVars, statsVars, mtVars, busVars, framerVars, nodeVars>>
    /\ UNCHANGED <<handlerVars, pipeVars>>

\* run(), line 55: should_stop_.store(false)
Gateway_run_store_should_stop ==
    /\ gw_pc = "store_should_stop"
    /\ gw_should_stop_' = FALSE
    /\ gw_pc' = "loop"
    /\ UNCHANGED <<gw_running_, gw_stops, gw_run>>
    /\ UNCHANGED <<trackerVars, statsVars, mtVars, busVars, framerVars, nodeVars>>
    /\ UNCHANGED <<handlerVars, pipeVars>>

\* the reading of the clock in the loop of run(): one value, nothing run()
\* decides depends on it
RunTimes == {1000}

\* the loop of run() that tests is_done() before it looks at what receive
\* returned
AfterReceive_DoneFirst(got) ==
    IF got.r.done_ THEN "break" ELSE IF got.ret THEN "process" ELSE "continue"

\* run(), lines 62-71: what the loop does with what receive returned in
\* replay mode
AfterReceive(got) ==
    IF got.ret THEN "process" ELSE IF got.r.done_ THEN "break" ELSE "continue"

\* run(), lines 61-78: one turn of while (!should_stop_.load()).  In UDP
\* mode receive times out and the loop goes on.  In replay mode receive reads
\* the next record: the frame is given to process_frame with the reading of
\* the clock, or the source is done and the loop is left.
Gateway_run_loop(rx_timestamp_ns) ==
    LET got == receive(replay[1], disk.bytes)
        todo == IF gw_should_stop_ THEN "break"
                ELSE IF gw_config_.replay_path = "" THEN "continue"
                ELSE AfterReceive(got)
        p == process_frame(gw_config_.crc_enabled, gw_tracker_, gw_stats_, got.buf,
                           rx_timestamp_ns)
    IN  /\ gw_pc = "loop"
        /\ gw_pc' = IF todo = "break" THEN "finish" ELSE "loop"
        /\ IF gw_should_stop_ \/ gw_config_.replay_path = ""
           THEN UNCHANGED <<replay, replay_buf, replay_ret, replay_out, replay_calls>>
           ELSE /\ replay' = [replay EXCEPT ![1] = got.r]
                /\ replay_buf' = [replay_buf EXCEPT ![1] = got.buf]
                /\ replay_ret' = [replay_ret EXCEPT ![1] = got.ret]
                /\ replay_out' = [replay_out EXCEPT ![1] =
                                      IF got.ret THEN Append(@, got.buf) ELSE @]
                /\ replay_calls' = [replay_calls EXCEPT ![1] = @ + 1]
        /\ IF todo = "process"
           THEN /\ gw_tracker_' = p.tracker
                /\ gw_stats_' = p.stats
                /\ gw_events' = p.events
                /\ gw_call' = [frame |-> got.buf, ts |-> rx_timestamp_ns, err |-> p.err,
                               ev |-> p.ev, crc_enabled |-> gw_config_.crc_enabled]
                /\ gw_frames' = gw_frames + 1
                /\ gw_run' = [gw_run EXCEPT !.passed = Append(@, got.buf)]
           ELSE UNCHANGED <<gw_tracker_, gw_stats_, gw_events, gw_call, gw_frames, gw_run>>
        /\ UNCHANGED <<gw_running_, gw_should_stop_, gw_stops, gw_config_>>
        /\ UNCHANGED <<pass_tracker, pass_stats>>
        /\ UNCHANGED <<trackerVars, statsVars, mtVars, busVars, framerVars, nodeVars>>
        /\ UNCHANGED <<handlerVars, parseVars, recVars, simVars>>

\* run(), lines 80-85: running_.store(false), run returns
Gateway_run_finish ==
    /\ gw_pc = "finish"
    /\ gw_running_' = FALSE
    /\ gw_pc' = "idle"
    /\ gw_run' = [gw_run EXCEPT !.returned = TRUE]
    /\ UNCHANGED <<gw_should_stop_, gw_stops>>
    /\ UNCHANGED <<trackerVars, statsVars, mtVars, busVars, framerVars, nodeVars>>
    /\ UNCHANGED <<handlerVars, pipeVars>>

\* void Gateway::stop(): should_stop_.store(true), from any thread
Gateway_stop ==
    /\ Len(gw_stops) < MaxStops
    /\ gw_stops' = Append(gw_stops, gw_should_stop_)
    /\ gw_should_stop_' = TRUE
    /\ gw_run' = [gw_run EXCEPT !.stopped = @ \/ gw_pc # "idle"]
    /\ UNCHANGED <<gw_running_, gw_pc>>
    /\ UNCHANGED <<trackerVars, statsVars, mtVars, busVars, framerVars, nodeVars>>
    /\ UNCHANGED <<handlerVars, pipeVars>>

\* the steps of the thread that is inside run()
GatewayRunStep ==
    \/ Gateway_run_store_running
    \/ Gateway_run_store_should_stop
    \/ \E ts \in RunTimes : Gateway_run_loop(ts)
    \/ Gateway_run_finish

Init ==
    /\ TrackerInit /\ StatsInit /\ MtInit /\ BusInit /\ FramerInit
    /\ NodeInit /\ GatewayInit /\ HandlerInit
    /\ ParseInit /\ ProcInit /\ RecorderInit /\ ReplayInit
    /\ FaultInit
    /\ GenInit

\* a tracker fed by every source id
Next ==
    \/ calls < MaxMultiCalls /\ TrackAny
    \/ calls < MaxMultiCalls /\ ResetAny
    \/ calls < MaxMultiCalls /\ SequenceTracker_reset_all

Spec == Init /\ [][Next]_vars

\* a tracker fed by one source id, followed for more calls
NextOne ==
    \/ calls < MaxCalls /\ TrackOne
    \/ calls < MaxCalls /\ ResetOne
    \/ calls < MaxCalls /\ SequenceTracker_reset_all

SpecOne == Init /\ [][NextOne]_vars

\* a StatsManager under any sequence of its calls
NextStats ==
    \/ stat_calls < MaxStatCalls /\ RecordRx
    \/ stat_calls < MaxStatCalls /\ RecordMalformed
    \/ stat_calls < MaxStatCalls /\ RecordGap
    \/ stat_calls < MaxStatCalls /\ RecordReorder
    \/ stat_calls < MaxStatCalls /\ RecordDuplicate
    \/ stat_calls < MaxStatCalls /\ RecordCrcFail
    \/ stat_calls < MaxStatCalls /\ StatsManager_get_health
    \/ stat_calls < MaxStatCalls /\ StatsManager_reset

SpecStats == Init /\ [][NextStats]_vars

\* one StatsManager called by the threads of Threads
NextStatsMt ==
    \/ \E t \in Threads : MtEnterMutator(t)
    \/ \E t \in Threads : MtLoadGlobal(t)
    \/ \E t \in Threads : MtStoreGlobal(t)
    \/ \E t \in Threads : MtUpdateSource(t)
    \/ \E t \in Threads : MtEnterReader(t)
    \/ \E t \in Threads : MtReturnReader(t)

SpecStatsMt == Init /\ [][NextStatsMt]_vars

\* one EventBus called by the threads of BusThreads and by its callbacks
NextBus ==
    \/ \E t \in BusThreads : EbCall(t)
    \/ \E t \in BusThreads : EventBus_subscribe(t)
    \/ \E t \in BusThreads : EventBus_subscribe_all(t)
    \/ \E t \in BusThreads : EventBus_unsubscribe(t)
    \/ \E t \in BusThreads : EventBus_publish_copy(t)
    \/ \E t \in BusThreads : EventBus_publish_unlock(t)
    \/ \E t \in BusThreads : EventBus_publish_invoke(t)
    \/ \E t \in BusThreads : EventBus_publish_return(t)

SpecBus == Init /\ [][NextBus]_vars

\* one TcpFramer fed a byte stream in any split
NextFramer ==
    \/ SendAny
    \/ SendHeader
    \/ FeedAny
    \/ TcpFramer_pop_frame

SpecFramer == Init /\ [][NextFramer]_vars

\* one ControlNode with its threads and with peers that connect and close,
\* and send no request
NextNode ==
    \/ ControlNode_start
    \/ ControlNode_stop_call
    \/ ControlNode_stop_signal
    \/ ControlNode_stop_close_clients
    \/ ControlNode_stop_join_accept
    \/ ControlNode_stop_lock
    \/ ControlNode_stop_join_clients
    \/ ControlNode_stop_finish
    \/ ControlNode_accept_loop
    \/ ControlNode_accept_poll
    \/ ControlNode_accept_accept
    \/ ControlNode_accept_push
    \/ \E c \in Clients : ControlNode_client_loop(c)
    \/ \E c \in Clients : ControlNode_client_poll(c)
    \/ \E c \in Clients : ControlNode_client_recv(c)
    \/ \E c \in Clients : ControlNode_client_close(c)
    \/ \E c \in Clients : ControlNode_client_erase(c)
    \/ \E c \in Clients : PeerConnect(c)
    \/ \E c \in Clients : PeerClose(c)

SpecNode == Init /\ [][NextNode]_vars

\* one ControlNode with one connection, on which the peer sends requests
NextConn ==
    \/ ControlNode_start
    \/ ControlNode_stop_call
    \/ ControlNode_stop_signal
    \/ ControlNode_stop_close_clients
    \/ ControlNode_stop_join_accept
    \/ ControlNode_stop_lock
    \/ ControlNode_stop_join_clients
    \/ ControlNode_stop_finish
    \/ ControlNode_accept_loop
    \/ ControlNode_accept_poll
    \/ ControlNode_accept_accept
    \/ ControlNode_accept_push
    \/ ControlNode_client_loop(1)
    \/ ControlNode_client_poll(1)
    \/ ControlNode_client_recv(1)
    \/ ControlNode_client_pop(1)
    \/ ControlNode_client_handle(1)
    \/ ControlNode_client_close(1)
    \/ ControlNode_client_erase(1)
    \/ PeerConnect(1)
    \/ \E cmd \in Commands : PeerSend(1, cmd)
    \/ PeerClose(1)

SpecConn == Init /\ [][NextConn]_vars

\* one ControlNode with one connection and one Gateway, each started and
\* stopped
NextStop ==
    \/ ControlNode_start
    \/ ControlNode_stop_call
    \/ ControlNode_stop_signal
    \/ ControlNode_stop_close_clients
    \/ ControlNode_stop_join_accept
    \/ ControlNode_stop_lock
    \/ ControlNode_stop_join_clients
    \/ ControlNode_stop_finish
    \/ ControlNode_accept_loop
    \/ ControlNode_accept_poll
    \/ ControlNode_accept_accept
    \/ ControlNode_accept_push
    \/ ControlNode_client_loop(1)
    \/ ControlNode_client_poll(1)
    \/ ControlNode_client_recv(1)
    \/ ControlNode_client_close(1)
    \/ ControlNode_client_erase(1)
    \/ PeerConnect(1)
    \/ PeerClose(1)
    \/ Gateway_run_enter
    \/ Gateway_run_store_running
    \/ Gateway_run_store_should_stop
    \/ \E ts \in RunTimes : Gateway_run_loop(ts)
    \/ Gateway_run_finish
    \/ Gateway_stop

SpecStop == Init /\ [][NextStop]_vars

\* one ControlNode whose clients send SET CRC commands and stay connected
NextHandler ==
    \/ ControlNode_start
    \/ ControlNode_accept_loop
    \/ ControlNode_accept_poll
    \/ ControlNode_accept_accept
    \/ ControlNode_accept_push
    \/ \E c \in Clients : ControlNode_client_loop(c)
    \/ \E c \in Clients : ControlNode_client_poll(c)
    \/ \E c \in Clients : ControlNode_client_recv(c)
    \/ \E c \in Clients : ControlNode_client_pop(c)
    \/ \E c \in Clients : ControlNode_client_handle(c)
    \/ \E c \in Clients : PeerConnect(c)
    \/ \E c \in Clients, cmd \in SetCommands : PeerSend(c, cmd)

SpecHandler == Init /\ [][NextHandler]_vars

\* calls of parse_frame
NextParse == ParseCall

SpecParse == Init /\ [][NextParse]_vars

\* a gateway processing frames
NextGateway ==
    \/ \E crc_enabled \in BOOLEAN : Gateway_Gateway(crc_enabled)
    \/ \E frame \in GwFrames, ts \in RxTimes : Gateway_process_frame(frame, ts)

SpecGateway == Init /\ [][NextGateway]_vars

\* a gateway processing frames while SET CRC commands are handled
NextPolicy ==
    \/ \E cmd \in SetCommands : CommandHandler_call(cmd)
    \/ \E crc_enabled \in BOOLEAN : Gateway_Gateway(crc_enabled)
    \/ \E frame \in GwFrames, ts \in RxTimes : Gateway_process_frame(frame, ts)

SpecPolicy == Init /\ [][NextPolicy]_vars

\* a recorder writing the record file and a ReplayFrameSource reading it
NextRecord ==
    \/ \E path \in Paths : FrameRecorder_open(path)
    \/ \E ts \in RecTimes, frame \in RecFrames : FrameRecorder_record(ts, frame)
    \/ FrameRecorder_close
    \/ ReplayFrameSource_open(1)
    \/ \E multiplier \in {0, 1} : ReplayFrameSource_set_speed(1, multiplier)
    \/ ReplayFrameSource_receive(1)
    \/ ReplayFrameSource_close(1)

SpecRecord == Init /\ [][NextRecord]_vars

\* a record file written by a recorder, then replayed by two passes
NextReplay ==
    \/ \E path \in Paths : FrameRecorder_open(path)
    \/ \E ts \in RecTimes, frame \in RecFrames : FrameRecorder_record(ts, frame)
    \/ FrameRecorder_close
    \/ \E i \in Passes : ReplayPass_start(i)
    \/ \E i \in Passes, ts \in RxTimes : ReplayPass_step(i, ts)

SpecReplay == Init /\ [][NextReplay]_vars

\* a record file written by a recorder, and a Gateway in UDP mode or in
\* replay mode on that file, whose run() is called on one thread and whose
\* stop() on another
NextRun ==
    \/ FrameRecorder_open(RecordPath)
    \/ \E ts \in RecTimes, frame \in RecFrames : FrameRecorder_record(ts, frame)
    \/ FrameRecorder_close
    \/ \E crc_enabled \in BOOLEAN : Gateway_Gateway_replay(crc_enabled)
    \/ Gateway_run_enter
    \/ Gateway_run_store_running
    \/ Gateway_run_store_should_stop
    \/ \E ts \in RunTimes : Gateway_run_loop(ts)
    \/ Gateway_run_finish
    \/ Gateway_stop

SpecRun == Init /\ [][NextRun]_vars

\* the same, where the thread inside run() keeps running
SpecRunFair == Init /\ [][NextRun]_vars /\ WF_vars(GatewayRunStep)

\* a FaultInjector whose apply is called on batches
NextFault ==
    \/ \E config \in FaultConfigs : FaultInjector_FaultInjector(config)
    \/ \E frames \in FaultBatches : FaultInjector_apply(frames)
    \/ FaultInjector_apply_corrupt
    \/ FaultInjector_apply_duplicate
    \/ FaultInjector_apply_loss
    \/ FaultInjector_apply_reorder

SpecFault == Init /\ [][NextFault]_vars

\* a MeasurementGenerator and the loop that feeds its frames
NextGen ==
    \/ \E objects \in GenObjectLists, timestamp_ns \in GenTimes :
           MeasurementGenerator_generate_plots(objects, timestamp_ns)
    \/ \E objects \in GenObjectLists, timestamp_ns \in GenTimes :
           MeasurementGenerator_generate_tracks(objects, timestamp_ns)
    \/ \E timestamp_ns \in GenTimes : MeasurementGenerator_generate_heartbeat(timestamp_ns)
    \/ \E timestamp_ns \in GenTimes : MeasurementGenerator_generate_engagement(timestamp_ns)
    \/ Pipeline_feed

SpecGen == Init /\ [][NextGen]_vars

(***************************************************************************)
(* Properties of the sequence tracker                                      *)
(***************************************************************************)
\* this step is the call track(src_id, seq)
IsTrack(src_id, seq) ==
    /\ calls' = calls + 1
    /\ seq_call'.op = "track"
    /\ seq_call'.src_id = src_id
    /\ seq_call'.seq = seq

\* src_id has an entry, seq is below its next_expected and at most WINDOW_SIZE behind it
InWindow(src_id, seq) ==
    /\ src_id \in DOMAIN sources_
    /\ U32Lt(seq, sources_[src_id].next_expected)
    /\ U32LeSmall(U32Sub(sources_[src_id].next_expected, seq), WINDOW_SIZE)

\* C1: a sequence number that was classified OK, GAP or REORDER for a source
\* and is passed again while it is below next_expected and at most 64 behind
\* it is classified DUPLICATE.
C1_ResentInWindowIsDuplicate ==
    [][\A src_id \in SrcIds, seq \in Seqs :
          (IsTrack(src_id, seq) /\ seq \in counted[src_id] /\ InWindow(src_id, seq))
              => seq_ev'.result = "DUPLICATE"]_vars

\* C2: track returns DUPLICATE only for a sequence number that was passed to
\* track for the same source since that source's last reset.
C2_DuplicateOnlyIfObserved ==
    [][\A src_id \in SrcIds, seq \in Seqs :
          (IsTrack(src_id, seq) /\ seq_ev'.result = "DUPLICATE")
              => seq \in observed[src_id]]_vars

\* C3: feeding 0, 1, ..., N-1 in order to a fresh source yields FIRST for 0
\* and OK for every later one.  run_len[src_id] = k >= 1 says that the calls for
\* src_id since its last reset were exactly 0, .., k-1, the last of them just made.
C3_SequentialIsFirstThenOk ==
    \A src_id \in SrcIds :
        (seq_call.op = "track" /\ seq_call.src_id = src_id /\ run_len[src_id] >= 1)
            => /\ seq_call.seq = U32Of(run_len[src_id] - 1)
               /\ seq_ev.result = IF run_len[src_id] = 1 THEN "FIRST" ELSE "OK"

\* the calls since the reset of source 1 were 0, 1, 2, 3 and the last returned OK
C3_Witness ==
    /\ seq_call.op = "track" /\ seq_call.src_id = 1
    /\ run_len[1] = 4
    /\ seq_ev.result = "OK"

\* C4: for an initialized source with next_expected = e, track(src, s) with
\* s > e returns GAP with expected_seq = e, actual_seq = s, gap_size = s - e and
\* sets next_expected to s + 1; a track(src, s + 1) right after it returns OK.
C4_GapEventAndResume ==
    [][\A src_id \in SrcIds, seq \in Seqs :
          /\ (/\ IsTrack(src_id, seq)
              /\ src_id \in DOMAIN sources_
              /\ U32Lt(sources_[src_id].next_expected, seq))
                 => /\ seq_ev' = SeqEvent("GAP", src_id, sources_[src_id].next_expected, seq,
                                          U32Sub(seq, sources_[src_id].next_expected))
                    /\ sources_'[src_id].next_expected = U32Inc(seq)
          /\ (/\ IsTrack(src_id, seq)
              /\ seq_call.op = "track" /\ seq_call.src_id = src_id
              /\ seq_ev.result = "GAP"
              /\ seq = U32Inc(seq_call.seq))
                 => seq_ev'.result = "OK"]_vars

\* source 1 saw 0 (FIRST), then 3 (GAP of 2), then 4, which returned OK
C4_Witness ==
    /\ calls = 3
    /\ first_seq[1] = {U32Of(0)}
    /\ observed[1] = {U32Of(0), U32Of(3), U32Of(4)}
    /\ seq_call.op = "track" /\ seq_call.seq = U32Of(4)
    /\ seq_ev.result = "OK"

C6_NextExpectedWraps ==
    [][\A src_id \in SrcIds :
          /\ (IsTrack(src_id, U32Top(0)) /\ seq_ev'.result \in {"FIRST", "OK", "GAP"})
                 => sources_'[src_id].next_expected = U32Of(0)
          /\ (/\ IsTrack(src_id, U32Of(0))
              /\ seq_call.op = "track" /\ seq_call.src_id = src_id
              /\ seq_call.seq = U32Top(0)
              /\ seq_ev.result \in {"FIRST", "OK", "GAP"})
                 => seq_ev'.result = "OK"]_vars

\* source 1 took 2^32 - 2, then 2^32 - 1 as OK, then 0 as OK
C6_Witness ==
    /\ calls = 3
    /\ first_seq[1] = {U32Top(1)}
    /\ counted[1] = {U32Top(0), U32Of(0)}
    /\ seq_call.op = "track" /\ seq_call.seq = U32Of(0)
    /\ seq_ev.result = "OK"
    /\ sources_[1].next_expected = U32Of(1)

\* C7: for an initialized source, track(src, s) with s < next_expected and
\* next_expected - s > 64 returns REORDER and leaves the source's
\* next_expected and seen window unchanged.
C7_FarBehindIsReorderUnchanged ==
    [][\A src_id \in SrcIds, seq \in Seqs :
          (/\ IsTrack(src_id, seq)
           /\ src_id \in DOMAIN sources_
           /\ U32Lt(seq, sources_[src_id].next_expected)
           /\ ~U32LeSmall(U32Sub(sources_[src_id].next_expected, seq), WINDOW_SIZE))
              => /\ seq_ev'.result = "REORDER"
                 /\ sources_'[src_id] = sources_[src_id]]_vars

\* a REORDER of a sequence number exactly WINDOW_SIZE + 1 behind next_expected
C7_Witness ==
    /\ seq_call.op = "track"
    /\ seq_ev.result = "REORDER"
    /\ U32Sub(seq_ev.expected_seq, seq_ev.actual_seq) = U32Of(WINDOW_SIZE + 1)

\* C8: entries exist exactly for the source ids passed to track since their
\* last reset (source_count counts them), a track for a source without an entry
\* returns FIRST, and track or reset of one source id leaves every other
\* source's entry as it was.
C8_EntriesPerSource ==
    [][/\ DOMAIN sources_' = {i \in SrcIds : observed'[i] # {}}
       /\ SequenceTracker_source_count' = Cardinality({i \in SrcIds : observed'[i] # {}})
       /\ (seq_call'.op = "track" /\ ~seq_call'.had) => seq_ev'.result = "FIRST"
       /\ (seq_call'.op = "reset") => seq_call'.src_id \notin DOMAIN sources_'
       /\ (seq_call'.op \in {"track", "reset"}) =>
              \A other \in SrcIds \ {seq_call'.src_id} :
                  /\ other \in DOMAIN sources_' <=> other \in DOMAIN sources_
                  /\ other \in DOMAIN sources_ => sources_'[other] = sources_[other]]_vars

\* two sources were tracked and one of them was then reset: one entry is left
C8_Witness ==
    /\ seq_call.op = "reset" /\ seq_call.had
    /\ SequenceTracker_source_count = 1
    /\ \E other \in SrcIds \ {seq_call.src_id} : other \in DOMAIN sources_

(***************************************************************************)
(* Properties of the StatsManager                                          *)
(***************************************************************************)
Mutators ==
    {"record_rx", "record_malformed", "record_gap", "record_reorder",
     "record_duplicate", "record_crc_fail"}

GlobalCounters ==
    {"rx_total", "malformed_total", "gap_total", "reorder_total",
     "duplicate_total", "crc_fail_total"}

SourceCounters == {"rx_count", "malformed", "gaps", "reorders", "duplicates"}

\* C9: across the record_* calls no global or per-source counter decreases and
\* no source entry disappears; after reset() the six global counters are 0 and
\* get_all_source_stats() is empty.
C9_CountersMonotonicUntilReset ==
    [][/\ (stat_calls' = stat_calls + 1 /\ stat_call'.op \in Mutators) =>
              /\ \A c \in GlobalCounters : global_'[c] >= global_[c]
              /\ \A i \in DOMAIN stats_sources_ :
                     /\ i \in DOMAIN stats_sources_'
                     /\ \A c \in SourceCounters :
                            stats_sources_'[i][c] >= stats_sources_[i][c]
       /\ (stat_calls' = stat_calls + 1 /\ stat_call'.op = "reset") =>
              /\ \A c \in GlobalCounters : StatsManager_get_global_stats'[c] = 0
              /\ StatsManager_get_all_source_stats' = {}]_vars

\* a reset() that dropped the entries of two sources
C9_Witness ==
    /\ stat_call.op = "reset"
    /\ stat_call.dropped = 2
    /\ global_ = GlobalStats0
    /\ stats_sources_ = <<>>

\* C10: get_health() returns ERROR if malformed_total > 0 or crc_fail_total > 0,
\* otherwise DEGRADED if gap_total > 0 or reorder_total > 0, otherwise OK.
C10_HealthRule ==
    stat_call.op = "get_health" =>
        /\ (global_.malformed_total > 0 \/ global_.crc_fail_total > 0)
               => health_ret = "ERROR"
        /\ (/\ global_.malformed_total = 0 /\ global_.crc_fail_total = 0
            /\ (global_.gap_total > 0 \/ global_.reorder_total > 0))
               => health_ret = "DEGRADED"
        /\ (/\ global_.malformed_total = 0 /\ global_.crc_fail_total = 0
            /\ global_.gap_total = 0 /\ global_.reorder_total = 0)
               => health_ret = "OK"

\* get_health() returned ERROR with a gap recorded besides the CRC failure:
\* ERROR wins over DEGRADED
C10_Witness ==
    /\ stat_call.op = "get_health"
    /\ health_ret = "ERROR"
    /\ global_.crc_fail_total > 0
    /\ global_.gap_total > 0

\* C11: record_crc_fail(src) adds 1 to the global crc_fail_total and 1 to the
\* malformed counter of source src (creating the entry when it is absent), and
\* changes no other global counter, no other field of that source and no other
\* source.
C11_CrcFailCountsOnce ==
    [][(stat_calls' = stat_calls + 1 /\ stat_call'.op = "record_crc_fail") =>
          LET src == stat_call'.src_id
              before == IF src \in DOMAIN stats_sources_
                        THEN stats_sources_[src] ELSE SourceStats0(src)
          IN  /\ global_'.crc_fail_total = global_.crc_fail_total + 1
              /\ \A c \in GlobalCounters \ {"crc_fail_total"} : global_'[c] = global_[c]
              /\ DOMAIN stats_sources_' = DOMAIN stats_sources_ \cup {src}
              /\ stats_sources_'[src].malformed = before.malformed + 1
              /\ \A f \in DOMAIN before \ {"malformed"} :
                     stats_sources_'[src][f] = before[f]
              /\ \A i \in DOMAIN stats_sources_ \ {src} :
                     stats_sources_'[i] = stats_sources_[i]]_vars

\* a CRC failure recorded for a source that had received a frame, with a
\* malformed frame recorded for another source: the two global counters differ
\* from each other and the other source is left alone
C11_Witness ==
    /\ stat_call.op = "record_crc_fail"
    /\ global_.crc_fail_total = 1
    /\ global_.malformed_total = 1
    /\ global_.rx_total = 1
    /\ stat_call.src_id \in DOMAIN stats_sources_
    /\ stats_sources_[stat_call.src_id].malformed = 1
    /\ stats_sources_[stat_call.src_id].rx_count = 1
    /\ \E i \in DOMAIN stats_sources_ \ {stat_call.src_id} :
           stats_sources_[i].malformed = 1

(***************************************************************************)
(* Properties of the StatsManager called from several threads              *)
(***************************************************************************)
RECURSIVE SumOfSources(_, _)
\* the sum of per-source counter c over the entries of the sources in S
SumOfSources(c, S) ==
    IF S = {} THEN 0
    ELSE LET i == CHOOSE j \in S : TRUE
         IN  stats_sources_[i][c] + SumOfSources(c, S \ {i})

RECURSIVE SumOfDone(_, _)
\* the sum of history counter c over the sources in S
SumOfDone(c, S) ==
    IF S = {} THEN 0
    ELSE LET i == CHOOSE j \in S : TRUE
         IN  mt_done[i][c] + SumOfDone(c, S \ {i})

\* C12: the mutators are atomic: at most one thread is inside a mutator and
\* then no thread is inside a getter; while a thread is inside a getter every
\* global counter equals the sum of its per-source counters (no mutator is half
\* applied); and when no thread is inside a mutator the counters hold exactly
\* the calls that returned (no update is lost).
C12_MutatorsAtomic ==
    LET inside == {t \in Threads : mt_pc[t] \in InMutator}
        readers == {t \in Threads : mt_pc[t] = "reading"}
    IN  /\ Cardinality(inside) <= 1
        /\ inside # {} => readers = {}
        /\ readers # {} =>
               /\ global_.rx_total = SumOfSources("rx_count", DOMAIN stats_sources_)
               /\ global_.gap_total = SumOfSources("gaps", DOMAIN stats_sources_)
        /\ inside = {} =>
               /\ global_.rx_total = SumOfDone("rx", SrcIds)
               /\ global_.gap_total = SumOfDone("gaps", SrcIds)
               /\ \A i \in SrcIds :
                      /\ (i \in DOMAIN stats_sources_) =
                             (mt_done[i].rx > 0 \/ mt_done[i].gaps > 0)
                      /\ i \in DOMAIN stats_sources_ =>
                             /\ stats_sources_[i].rx_count = mt_done[i].rx
                             /\ stats_sources_[i].gaps = mt_done[i].gaps

\* two threads are inside getters at the same time after a record_rx and a
\* record_gap have returned
C12_Witness ==
    /\ Cardinality({t \in Threads : mt_pc[t] = "reading"}) = 2
    /\ global_.rx_total = 1
    /\ global_.gap_total > 0

(***************************************************************************)
(* Properties of the EventBus                                              *)
(***************************************************************************)
\* the ids of a sequence of subscriptions or of invocations
IdsOf(q) == [i \in 1..Len(q) |-> q[i].id]

\* the subscriptions that were in subs_ when publish call f made its copy and
\* that receive its event
Receivers(f) ==
    SelectSeq(f.at_call, LAMBDA s : s.all_categories \/ s.category = f.category)

\* the publish calls in progress that have made their copy, with their thread
PublishesInProgress ==
    {p \in BusThreads \X (1..MaxDepth) :
        /\ p[2] <= Len(bus_stack[p[1]])
        /\ bus_stack[p[1]][p[2]].op = "publish"
        /\ bus_stack[p[1]][p[2]].pc # "enter"}

\* C13: publish(event) invokes, in the calling thread and before it returns,
\* exactly once each callback that was subscribed when the call took its copy of
\* subs_ and that is subscribed to all categories or to the event's category,
\* and no other callback, whatever other threads do meanwhile.
C13_PublishInvokesEachOnce ==
    /\ \A p \in PublishesInProgress :
           LET f == bus_stack[p[1]][p[2]]
           IN  /\ IdsOf(f.called) \o f.to_call = IdsOf(Receivers(f))
               /\ \A i \in 1..Len(f.called) : f.called[i].by = p[1]
    /\ bus_done.call.op = "publish" =>
           /\ IdsOf(bus_done.call.called) = IdsOf(Receivers(bus_done.call))
           /\ \A i \in 1..Len(bus_done.call.called) :
                  bus_done.call.called[i].by = bus_done.thread

\* a publish returned after invoking two callbacks, one of them subscribed to
\* all categories, while another thread is in the loop of its own publish
C13_Witness ==
    /\ Len(bus_done.call.called) = 2
    /\ \E i \in 1..Len(bus_done.call.at_call) : bus_done.call.at_call[i].all_categories
    /\ \E t \in BusThreads \ {bus_done.thread} :
           /\ bus_stack[t] # <<>>
           /\ bus_stack[t][1].op = "publish"
           /\ bus_stack[t][1].pc = "calling"
           /\ bus_stack[t][1].called # <<>>

\* thread t's unsubscribe call returns in this step
UnsubscribeReturns(t) ==
    /\ bus_stack[t] # <<>>
    /\ Top(t).op = "unsubscribe"
    /\ Len(bus_stack'[t]) = Len(bus_stack[t]) - 1

\* C14: a publish call made after unsubscribe(id) returned never invokes the
\* callback of the subscription that call removed; unsubscribe(id) leaves every
\* other subscription in subs_, in order; and unsubscribe of an id that is not
\* subscribed changes neither subs_ nor next_id_.
C14_UnsubscribeStopsDelivery ==
    [][/\ \A t \in BusThreads : \A i \in 1..Len(bus_stack'[t]) :
              LET f == bus_stack'[t][i]
              IN  f.op = "publish" =>
                      \A s \in f.gone :
                          /\ \A k \in 1..Len(f.called) : f.called[k].id # s.id
                          /\ \A k \in 1..Len(f.to_call) : f.to_call[k] # s.id
       /\ \A t \in BusThreads : UnsubscribeReturns(t) =>
              /\ subs_' = SelectSeq(subs_, LAMBDA s : s.id # Top(t).id)
              /\ (\A k \in 1..Len(subs_) : subs_[k].id # Top(t).id) =>
                     (subs_' = subs_ /\ next_id_' = next_id_)]_vars

\* a publish that was made after a subscription to its category had been
\* unsubscribed returned after invoking the callback of another subscription
C14_Witness ==
    /\ bus_done.call.called # <<>>
    /\ \E s \in bus_done.call.gone :
           s.all_categories \/ s.category = bus_done.call.category

\* C15: a publish call does not hold mutex_ while it invokes callbacks: a
\* thread holds mutex_ only in the copy block of the publish call it is
\* executing, never in the loop over to_call; and no set of calls waits for
\* ever: whenever some thread is inside a call, a thread that is inside a call
\* can take a step, also when the call was made by a callback.
C15_NoLockInCallbacks ==
    /\ \A t \in BusThreads :
           /\ bus_mutex_ = t =>
                  (bus_stack[t] # <<>> /\ Top(t).op = "publish" /\ Top(t).pc = "locked")
           /\ (bus_stack[t] # <<>> /\ Top(t).op = "publish" /\ Top(t).pc = "calling")
                  => bus_mutex_ # t
    /\ (\E t \in BusThreads : bus_stack[t] # <<>>) =>
           \E t \in BusThreads : bus_stack[t] # <<>> /\ ENABLED BusStep(t)

\* a callback has called publish, and that inner publish has taken the lock,
\* released it and invoked a callback itself
C15_Witness ==
    \E t \in BusThreads :
        /\ Len(bus_stack[t]) = 2
        /\ bus_stack[t][1].pc = "in_cb"
        /\ bus_stack[t][2].op = "publish"
        /\ bus_stack[t][2].pc = "calling"
        /\ bus_stack[t][2].called # <<>>

(***************************************************************************)
(* Properties of the TcpFramer                                             *)
(***************************************************************************)
IsPrefix(a, b) == Len(a) <= Len(b) /\ SubSeq(b, 1, Len(a)) = a

\* C16: when only encode(p_1), .., encode(p_k) were sent, in whatever split
\* they are fed, the payloads popped followed by the ready queue are p_1, p_2,
\* .. in order; once every byte is fed they are p_1..p_k and the buffer is
\* empty; and once all k are popped has_frame() is false.
C16_RoundTrip ==
    fr_clean =>
        /\ IsPrefix(fr_popped \o ready_frames_, fr_sent)
        /\ wire = <<>> => (fr_popped \o ready_frames_ = fr_sent /\ buffer_ = <<>>)
        /\ (wire = <<>> /\ fr_popped = fr_sent) => ~TcpFramer_has_frame

\* three payloads, an empty one and two different ones among them, were sent,
\* fed and popped
C16_Witness ==
    /\ fr_clean
    /\ wire = <<>>
    /\ Len(fr_sent) = 3
    /\ fr_popped = fr_sent
    /\ \E i \in 1..3 : fr_sent[i] = <<>>
    /\ \E i, j \in 1..3 : fr_sent[i] # <<>> /\ fr_sent[j] # <<>> /\ fr_sent[i] # fr_sent[j]

\* the four bytes at the head of b, read as a big-endian number, exceed 10 MiB
\* (10 MiB is the bytes 0, 160, 0, 0)
HeadExceeds10MiB(b) ==
    b[1] > 0 \/ b[2] > 160 \/ (b[2] = 160 /\ (b[3] > 0 \/ b[4] > 0))

\* C17: a feed call that finds a length above 10 MiB at the head of the buffer
\* leaves the buffer empty and the ready queue as it was (a length of exactly
\* 10 MiB is kept and waited for); and after a discard, a feed call that
\* supplies encode(p) to the empty buffer appends p to the ready queue.
C17_OversizeDiscards ==
    [][Len(wire') < Len(wire) =>
          LET chunk == SubSeq(wire, 1, Len(wire) - Len(wire'))
              b == buffer_ \o chunk
          IN  /\ (Len(b) >= 4 /\ HeadExceeds10MiB(b)) =>
                     (buffer_' = <<>> /\ ready_frames_' = ready_frames_)
              /\ (Len(b) >= 4 /\ SubSeq(b, 1, 4) = LargestHeader) =>
                     (buffer_' = b /\ ready_frames_' = ready_frames_)
              /\ (fr_kept >= 0 /\ buffer_ = <<>>) =>
                     \A p \in Payloads :
                         chunk = encode(p) =>
                             /\ ready_frames_' = Append(ready_frames_, p)
                             /\ buffer_' = <<>>]_vars

\* feed discarded an oversize length while one frame was in the ready queue;
\* that frame is still there, followed by the frame that was fed afterwards
C17_Witness ==
    /\ fr_kept = 1
    /\ fr_popped = <<>>
    /\ Len(ready_frames_) = 2
    /\ ready_frames_ = fr_sent
    /\ buffer_ = <<>>
    /\ wire = <<>>

(***************************************************************************)
(* Properties of the ControlNode and of the Gateway's stop                 *)
(***************************************************************************)
\* C18: every stop() call on a started node returns: while a stop() call is
\* in progress some thread of the node can take a step; and once stop() has
\* returned (the node is not running, its caller is outside stop) the accept
\* thread and every client thread have ended.
C18_StopReturns ==
    /\ main_pc # "idle" => ENABLED NodeThreadStep
    /\ (main_pc = "idle" /\ ~node_running_) =>
           /\ accept_pc \in {"none", "done"}
           /\ \A c \in Clients : client_pc[c] \in {"none", "done"}

\* C19: a stop() call made on a ControlNode that an earlier stop() left
\* stopped returns at once and changes nothing of the node: nothing is
\* signalled, closed or joined; and a Gateway::stop() call that finds the
\* should_stop_ an earlier stop() set changes nothing of the gateway.
C19_SecondStopChangesNothing ==
    [][ /\ (stop_calls' = stop_calls + 1 /\ stops_returned # <<>> /\ ~node_running_) =>
            /\ main_pc' = "idle"
            /\ stops_returned' = Append(stops_returned, "at_once")
            /\ UNCHANGED <<listen_fd_, node_running_, node_should_stop_,
                           clients_mutex_, client_threads_, client_fds_, accept_pc,
                           accepted, client_pc, fd_open, backlog, connVars>>
        /\ (Len(gw_stops') = Len(gw_stops) + 1 /\ gw_stops # <<>> /\ gw_should_stop_) =>
            UNCHANGED <<gw_running_, gw_should_stop_, gw_pc>>
      ]_vars

\* a node was started, connected to, stopped and stopped again, and a
\* gateway stopped twice, the second call finding the flag of the first
C19_Witness ==
    /\ stops_returned = <<"shut_down", "at_once">>
    /\ client_pc[1] = "done"
    /\ ~node_running_
    /\ gw_stops = <<FALSE, TRUE>>
    /\ gw_should_stop_

(***************************************************************************)
(* Properties of a client connection                                       *)
(***************************************************************************)
\* the connection is open: the node has not closed its fd and the peer has
\* not closed its end
Open(c) == fd_open[c] /\ ~peer_closed[c]

\* the client thread is outside the inner loop that answers the frames
BetweenRequests(c) == client_pc[c] \in {"loop", "poll", "recv", "close", "erase", "done"}

\* the responses sent so far answer the first requests received, in order
AnsweredInOrder(c) ==
    /\ Len(responses[c]) <= Len(requests[c])
    /\ \A i \in 1..Len(responses[c]) : responses[c][i] = CommandHandler_handle(requests[c][i])

\* a step that sends an error response leaves the fd open and the client
\* thread in its loop
ErrKeepsConnection(c) ==
    (/\ Len(responses'[c]) = Len(responses[c]) + 1
     /\ responses'[c][Len(responses'[c])][1] = "ERR") =>
        /\ fd_open'[c] = fd_open[c]
        /\ client_pc'[c] = "handle"

\* C20 as stated: on each connection every request frame received has got
\* exactly one response once the client thread has left the answering loop,
\* the responses are in the order of the requests, and an ERR response does
\* not close the connection.
C20_OneResponsePerRequest ==
    /\ [](\A c \in Clients :
            /\ AnsweredInOrder(c)
            /\ BetweenRequests(c) => Len(responses[c]) = Len(requests[c]))
    /\ [][\A c \in Clients : ErrKeepsConnection(c)]_vars

\* C20 amended: the same on a connection that is open; a request received
\* on a connection that stop() or the peer has closed may get no response.
C20_OneResponsePerRequestWhileOpen ==
    /\ [](\A c \in Clients : Open(c) =>
            /\ AnsweredInOrder(c)
            /\ Len(responses[c]) + Len(framer_ready[c])
                   + (IF client_pc[c] = "in_handle" THEN 1 ELSE 0) = Len(requests[c])
            /\ BetweenRequests(c) => Len(responses[c]) = Len(requests[c]))
    /\ [][\A c \in Clients : ErrKeepsConnection(c)]_vars

\* an invalid command was answered with ERR and the command after it with
\* the health, on a connection still open
C20_Witness ==
    /\ Open(1)
    /\ requests[1] = <<"INVALID xyz", "GET health">>
    /\ Len(responses[1]) = 2
    /\ responses[1][1][1] = "ERR"
    /\ responses[1][2][1] = "HEALTH"
    /\ client_pc[1] = "poll"

(***************************************************************************)
(* Properties of the CommandHandler of a ControlNode                       *)
(***************************************************************************)
\* the client threads that are executing handler_.handle
InHandle == {c \in Clients : client_pc[c] = "in_handle"}

\* C21: no two client threads execute CommandHandler::handle on the node's
\* handler at the same time.
C21_HandlerUsedByOneThread == Cardinality(InHandle) <= 1

(***************************************************************************)
(* Properties of the CRC policy                                            *)
(***************************************************************************)
\* this step is a process_frame call
IsProcessFrame == gw_frames' = gw_frames + 1

\* C22: a frame processed when the last SET CRC request was answered
\* OK CRC=OFF is parsed with CRC validation disabled, one processed when it
\* was answered OK CRC=ON with validation enabled, and a request answered
\* ERR INVALID_CRC_VALUE leaves the gateway's policy as it was.
C22_SetCrcTogglesPolicy ==
    [][/\ (IsProcessFrame /\ handle_ret = <<"OK", "CRC=OFF">>)
             => ~gw_call'.crc_enabled
       /\ (IsProcessFrame /\ handle_ret = <<"OK", "CRC=ON">>)
             => gw_call'.crc_enabled
       /\ (handle_ret' = <<"ERR", "INVALID_CRC_VALUE">>)
             => gw_config_' = gw_config_]_vars

(***************************************************************************)
(* Properties of parse_frame                                               *)
(***************************************************************************)
\* the errors in the order of their checks
ErrorOrder ==
    <<"TOO_SHORT", "BAD_VERSION", "BAD_MSG_TYPE", "PAYLOAD_TOO_LONG", "TRUNCATED",
      "CRC_MISMATCH">>

\* payload_len as the bytes 17 and 18 of the buffer give it
PayloadLenIn(buf) == buf[17] + 256 * buf[18]

\* the total length a frame with the header of buf has
TotalLen(buf, crc_enabled) == 18 + PayloadLenIn(buf) + (IF crc_enabled THEN 4 ELSE 0)

\* the condition of each error on the buffer; a condition on bytes the
\* buffer does not have does not fail
Fails(e, buf, crc_enabled) ==
    CASE e = "TOO_SHORT" -> Len(buf) < 18
      [] e = "BAD_VERSION" -> Len(buf) >= 1 /\ buf[1] # 1
      [] e = "BAD_MSG_TYPE" -> Len(buf) >= 2 /\ buf[2] \notin 1..4
      [] e = "PAYLOAD_TOO_LONG" -> Len(buf) >= 18 /\ PayloadLenIn(buf) > 1024
      [] e = "TRUNCATED" -> Len(buf) >= 18 /\ Len(buf) < TotalLen(buf, crc_enabled)
      [] e = "CRC_MISMATCH" ->
            /\ crc_enabled
            /\ Len(buf) >= 18
            /\ Len(buf) >= TotalLen(buf, TRUE)
            /\ crc32(SubSeq(buf, 1, 18 + PayloadLenIn(buf)))
                   # SubSeq(buf, 19 + PayloadLenIn(buf), 22 + PayloadLenIn(buf))

\* the positions in ErrorOrder of the checks that fail on the last call
Failing == {i \in DOMAIN ErrorOrder : Fails(ErrorOrder[i], parse_buf, parse_crc_enabled)}

\* a parse_frame call has returned
ParseReturned == parse_ret.err # "NONE"

\* C23: parse_frame returns the error of the earliest check that fails, in
\* the order TOO_SHORT, BAD_VERSION, BAD_MSG_TYPE, PAYLOAD_TOO_LONG,
\* TRUNCATED, CRC_MISMATCH, whatever else fails too, and OK only when no
\* check fails.
C23_EarliestFailureWins ==
    ParseReturned =>
        IF Failing = {} THEN parse_ret.err = "OK"
        ELSE \E i \in Failing :
                /\ \A j \in Failing : i <= j
                /\ parse_ret.err = ErrorOrder[i]

\* a call on a buffer on which a header check and the length check fail
C23_Witness ==
    /\ ParseReturned
    /\ parse_ret.err = "BAD_VERSION"
    /\ {3, 5} \subseteq Failing

\* C24: parse_frame returns OK only for a buffer whose length equals
\* 18 + payload_len + (4 if CRC is enabled); a longer buffer, one of more
\* than 1046 bytes among them, is not accepted.
C24_AcceptsExactLengthOnly ==
    (ParseReturned /\ parse_ret.err = "OK")
        => Len(parse_buf) = TotalLen(parse_buf, parse_crc_enabled)

(***************************************************************************)
(* Properties of the recorder and the replay                               *)
(***************************************************************************)
\* the ReplayFrameSource of pass 1 has read the record file to its end
ReplayFinished == replay[1].is_open /\ replay[1].done_

\* C25: a ReplayFrameSource opened at speed 0 on the file of the frames
\* f_1..f_n recorded with success gets true from receive exactly n times,
\* the i-th time with buf = f_i, and frames_replayed() ends at n.
C25_ReplayReturnsRecordedFrames ==
    (replay[1].is_open /\ replay[1].speed_multiplier_ = 0) =>
        /\ IsPrefix(replay_out[1], rec_frames)
        /\ replay[1].frames_replayed_ = Len(replay_out[1])
        /\ replay_ret[1] /\ replay_calls[1] > 0 => replay_buf[1] = rec_frames[Len(replay_out[1])]
        /\ ReplayFinished => replay_out[1] = rec_frames

\* two frames recorded, the first of them empty, and replayed to the end
C25_Witness ==
    /\ ReplayFinished
    /\ replay[1].speed_multiplier_ = 0
    /\ Len(rec_frames) = 2
    /\ rec_frames[1] = <<>>
    /\ rec_frames[2] # <<>>
    /\ replay[1].frames_replayed_ = 2

\* the number of records of a file made of complete records from pos on,
\* and -1 for a file that ends inside a record
RECURSIVE CompleteRecords(_, _)
CompleteRecords(bytes, pos) ==
    IF pos = Len(bytes) THEN 0
    ELSE IF pos + 12 > Len(bytes) THEN -1
    ELSE LET next == pos + 12 + U32At(bytes, pos + 9)
         IN  IF next > Len(bytes) THEN -1
             ELSE LET rest == CompleteRecords(bytes, next)
                  IN  IF rest < 0 THEN -1 ELSE rest + 1

\* this step is a receive call of pass 1
IsReceive == replay_calls'[1] = replay_calls[1] + 1

\* C26: on a file of n >= 1 complete records is_done() is false after open
\* and after each of the first n - 1 receives, true once the n-th has
\* returned, and every later receive returns false and leaves
\* frames_replayed() as it is.
C26_DoneExactlyAfterLastRecord ==
    /\ [](LET n == CompleteRecords(disk.bytes, 0)
          IN  (replay[1].is_open /\ n >= 1) =>
                  (replay[1].done_ <=> replay_calls[1] >= n))
    /\ [][(IsReceive /\ ReplayFinished /\ CompleteRecords(disk.bytes, 0) >= 1)
              => /\ ~replay_ret'[1]
                 /\ replay'[1].frames_replayed_ = replay[1].frames_replayed_]_vars

\* a file of two records after a third receive
C26_Witness ==
    /\ ReplayFinished
    /\ CompleteRecords(disk.bytes, 0) = 2
    /\ replay_calls[1] = 3
    /\ ~replay_ret[1]
    /\ replay[1].frames_replayed_ = 2

\* C27: frame_count() equals the number of record calls that returned true
\* since the last open; a record call on a recorder that is not open or
\* whose write fails returns false and leaves it unchanged; open() makes it
\* 0.
C27_FrameCountIsSuccessfulRecords ==
    /\ [](frame_count_ = rec_true)
    /\ [][/\ (rec_call'.op = "record" /\ ~rec_call'.ret /\ rec_calls' # rec_calls)
               => frame_count_' = frame_count_
          /\ (rec_call'.op = "open" /\ rec_calls' # rec_calls)
               => frame_count_' = 0]_vars

\* the replay pass i has read the record file to its end
PassFinished(i) == replay[i].is_open /\ replay[i].done_

\* C28: two replay passes over the same record file, each with its own
\* tracker and StatsManager, end with equal GlobalStats.
C28_ReplayIsDeterministic ==
    (PassFinished(1) /\ PassFinished(2)) => pass_stats[1].global = pass_stats[2].global

\* two finished passes over a file with a frame that parses and one that
\* does not, whose clocks read differently
C28_Witness ==
    /\ PassFinished(1) /\ PassFinished(2)
    /\ pass_stats[1].global.rx_total >= 1
    /\ pass_stats[1].global.malformed_total >= 1
    /\ pass_stats[1].sources # pass_stats[2].sources

(***************************************************************************)
(* Properties of Gateway::process_frame                                    *)
(***************************************************************************)
\* the GlobalStats counters before and after the step
G0 == gw_stats_.global
G1 == gw_stats_'.global

\* this step is a process_frame call on a frame that fails parsing
IsMalformedFrame == IsProcessFrame /\ gw_call'.err # "OK"

\* this step is a process_frame call on a frame that parses
IsParsedFrame == IsProcessFrame /\ gw_call'.err = "OK"

\* C29: for a frame that fails parsing process_frame adds 1 to
\* malformed_total, and 1 to crc_fail_total when the error is CRC_MISMATCH,
\* leaves the other counters and the tracker unchanged, publishes one WARN
\* event, EVT_CRC_FAIL for a CRC mismatch and EVT_FRAME_MALFORMED otherwise,
\* and leaves the run loop running.
C29_MalformedFrameCounted ==
    [][IsMalformedFrame =>
          /\ G1.malformed_total = G0.malformed_total + 1
          /\ G1.crc_fail_total = G0.crc_fail_total
                + (IF gw_call'.err = "CRC_MISMATCH" THEN 1 ELSE 0)
          /\ G1.rx_total = G0.rx_total
          /\ G1.gap_total = G0.gap_total
          /\ G1.reorder_total = G0.reorder_total
          /\ G1.duplicate_total = G0.duplicate_total
          /\ gw_tracker_' = gw_tracker_
          /\ Len(gw_events') = 1
          /\ gw_events'[1].severity = "WARN"
          /\ gw_events'[1].id = (IF gw_call'.err = "CRC_MISMATCH" THEN "EVT_CRC_FAIL"
                                 ELSE "EVT_FRAME_MALFORMED")
          /\ UNCHANGED gwVars]_vars

\* a frame with a wrong CRC processed after a frame that parsed and a
\* frame malformed otherwise
C29_Witness ==
    /\ gw_call.err = "CRC_MISMATCH"
    /\ gw_stats_.global.crc_fail_total = 1
    /\ gw_stats_.global.malformed_total = 2
    /\ gw_stats_.global.rx_total = 1
    /\ gw_tracker_ # <<>>

\* the events of the sequence switch among the events published
SeqEventIds == {"EVT_SOURCE_ONLINE", "EVT_SEQ_GAP", "EVT_SEQ_REORDER"}

SeqEventsOf(events) == SelectSeq(events, LAMBDA e : e.id \in SeqEventIds)

\* exactly one sequence event was published, with this id and severity
OneSeqEvent(events, id, severity) ==
    /\ Len(SeqEventsOf(events)) = 1
    /\ SeqEventsOf(events)[1].id = id
    /\ SeqEventsOf(events)[1].severity = severity

\* the step adds these amounts to gap_total, reorder_total, duplicate_total
Anomalies(gap, reorder, duplicate) ==
    /\ G1.gap_total = G0.gap_total + gap
    /\ G1.reorder_total = G0.reorder_total + reorder
    /\ G1.duplicate_total = G0.duplicate_total + duplicate

\* C30: for a frame that parses process_frame adds 1 to rx_total and,
\* by the tracker's result: FIRST publishes one EVT_SOURCE_ONLINE at INFO;
\* GAP adds gap_size to gap_total and publishes one EVT_SEQ_GAP at WARN;
\* REORDER adds 1 to reorder_total and publishes one EVT_SEQ_REORDER at
\* WARN; DUPLICATE adds 1 to duplicate_total and publishes no sequence
\* event; OK changes no anomaly counter and publishes no sequence event.
C30_ParsedFrameCounted ==
    [][IsParsedFrame =>
          LET ev == gw_call'.ev
          IN  /\ G1.rx_total = G0.rx_total + 1
              /\ ev.result = "FIRST" =>
                    /\ Anomalies(0, 0, 0)
                    /\ OneSeqEvent(gw_events', "EVT_SOURCE_ONLINE", "INFO")
              /\ ev.result = "GAP" =>
                    /\ Anomalies(ev.gap_size.hi * 65536 + ev.gap_size.lo, 0, 0)
                    /\ OneSeqEvent(gw_events', "EVT_SEQ_GAP", "WARN")
              /\ ev.result = "REORDER" =>
                    /\ Anomalies(0, 1, 0)
                    /\ OneSeqEvent(gw_events', "EVT_SEQ_REORDER", "WARN")
              /\ ev.result = "DUPLICATE" =>
                    /\ Anomalies(0, 0, 1)
                    /\ SeqEventsOf(gw_events') = <<>>
              /\ ev.result = "OK" =>
                    /\ Anomalies(0, 0, 0)
                    /\ SeqEventsOf(gw_events') = <<>>
              /\ ev.result \in {"FIRST", "GAP", "REORDER", "DUPLICATE", "OK"}]_vars

\* a gap of two counted as two, after a first frame
C30_Witness ==
    /\ gw_call.err = "OK"
    /\ gw_call.ev.result = "GAP"
    /\ gw_call.ev.gap_size = U32Of(2)
    /\ gw_stats_.global.gap_total = 2
    /\ gw_stats_.global.rx_total = 2

(***************************************************************************)
(* The window of the sequence tracker                                      *)
(***************************************************************************)
\* the sequence number bit i of the window of s stands for: next_expected - 64 + i
SeqOfBit(s, i) == U32Sub(s.next_expected, U32Of(WINDOW_SIZE - i))

\* C36: for every initialized source and every i in 0..63, bit i of
\* seen_window is set exactly when next_expected - 64 + i was classified OK,
\* GAP or REORDER for the source since its last reset (the sequence number that
\* produced FIRST is not recorded), bit 63 standing for next_expected - 1.
C36_WindowInvariant ==
    \A src_id \in DOMAIN sources_ :
        sources_[src_id].initialized =>
            \A i \in 0..(WINDOW_SIZE - 1) :
                (i \in sources_[src_id].seen_window)
                    <=> (SeqOfBit(sources_[src_id], i) \in counted[src_id])

\* C37: track never returns GAP for a sequence number that was passed to
\* track for the same source since that source's last reset, also when
\* next_expected has wrapped from 2^32-1 to 0.
C37_ObservedIsNeverGap ==
    [][\A src_id \in SrcIds, seq \in Seqs :
          (IsTrack(src_id, seq) /\ seq \in observed[src_id])
              => seq_ev'.result # "GAP"]_vars

(***************************************************************************)
(* The global counters of the StatsManager and its source entries          *)
(***************************************************************************)
\* C38: in every StatsManager state each of rx_total, gap_total,
\* reorder_total and duplicate_total equals the sum over all source entries of
\* rx_count, gaps, reorders and duplicates.
C38_GlobalIsSumOfSources ==
    /\ global_.rx_total = SumOfSources("rx_count", DOMAIN stats_sources_)
    /\ global_.gap_total = SumOfSources("gaps", DOMAIN stats_sources_)
    /\ global_.reorder_total = SumOfSources("reorders", DOMAIN stats_sources_)
    /\ global_.duplicate_total = SumOfSources("duplicates", DOMAIN stats_sources_)

\* two sources have entries with a frame each, a gap was recorded for one
\* of them and a reorder for the other
C38_Witness ==
    /\ Cardinality(DOMAIN stats_sources_) = 2
    /\ \A i \in DOMAIN stats_sources_ : stats_sources_[i].rx_count = 1
    /\ \E i, j \in DOMAIN stats_sources_ :
           /\ i # j
           /\ stats_sources_[i].gaps > 0
           /\ stats_sources_[j].reorders = 1
    /\ global_.rx_total = 2
    /\ global_.gap_total > 0
    /\ global_.reorder_total = 1

(***************************************************************************)
(* The lifetime of a subscription                                          *)
(***************************************************************************)
\* the publish call at depth i of thread t invokes the callback of
\* subscription id in this step
Invokes(t, i, id) ==
    /\ i <= Len(bus_stack[t])
    /\ i <= Len(bus_stack'[t])
    /\ bus_stack[t][i].op = "publish"
    /\ bus_stack'[t][i].called =
           Append(bus_stack[t][i].called, [id |-> id, by |-> t])

\* C40: once unsubscribe(id) has returned, the callback of id is not invoked
\* any more, neither by a publish that was in progress on another thread nor
\* by the publish whose earlier callback made the unsubscribe call.
C40_InvokedOnlyWhileLive ==
    [][\A t \in BusThreads, i \in 1..MaxDepth, id \in 1..MaxSubs :
          Invokes(t, i, id) => \A s \in bus_gone : s.id # id]_vars

(***************************************************************************)
(* The client sockets of the ControlNode                                   *)
(***************************************************************************)
\* client_loop of c executes ::close(client_fd) in this step (line 160)
ClientCloses(c) == client_pc[c] = "close" /\ client_pc'[c] = "erase"

\* stop() executes ::shutdown and ::close on the fd of c in this step (lines 70-73)
StopCloses(c) ==
    main_pc = "close_clients" /\ main_pc' = "join_accept" /\ c \in client_fds_

\* client_loop of c executes ::poll or ::recv on client_fd in this step
ClientUses(c) == client_pc[c] \in {"poll", "recv"} /\ client_pc'[c] # client_pc[c]

\* C39: every accepted client socket is closed exactly once: a close call, by
\* stop() or by the client's thread, is made on an fd that is still open, the
\* client's thread polls and reads only an fd that is still open, and the fd
\* is closed when the thread has ended.
C39_ClientFdClosedOnce ==
    [][\A c \in Clients :
          /\ ClientCloses(c) => fd_open[c]
          /\ StopCloses(c) => fd_open[c]
          /\ ClientUses(c) => fd_open[c]
          /\ client_pc'[c] = "done" => ~fd_open'[c]]_vars

(***************************************************************************)
(* Properties of Gateway::run and Gateway::stop                            *)
(***************************************************************************)
\* C31: a stop() call made after run() has been entered on another thread,
\* also before run() has reached its loop, is not lost: run() returns, and
\* is_running() is false then.
C31_StopEndsRun ==
    (gw_run.stopped /\ ~gw_run.returned) ~> (gw_run.returned /\ ~gw_running_)

\* the frames of the complete records of a file from pos on, in file order
RECURSIVE RecordsOf(_, _)
RecordsOf(bytes, pos) ==
    IF pos + RECORD_HEAD_SIZE > Len(bytes) THEN <<>>
    ELSE LET start == pos + RECORD_HEAD_SIZE
             next == start + U32At(bytes, pos + RECORD_TS_SIZE + 1)
         IN  IF next > Len(bytes) THEN <<>>
             ELSE <<SubSeq(bytes, start + 1, next)>> \o RecordsOf(bytes, next)

\* the thread inside run() makes a turn of the loop in replay mode, with
\* should_stop_ false
IsReplayTurn ==
    /\ gw_pc = "loop"
    /\ replay_calls'[1] = replay_calls[1] + 1

\* C32: in replay mode run() returns without a stop() call once the source
\* reports done: a turn of the loop that finds the source done leaves the
\* loop, and every other turn reads on in the file or ends with the source
\* done, so the loop makes at most one turn per record and one more.  When
\* run() has returned with no stop() call made since its entry, it has given
\* the frames of the complete records of the file to process_frame, each once
\* and in file order, and rx_total + malformed_total has grown by their
\* number (from 0, on a gateway that had processed no frame before).
C32_ReplayRunEndsByItself ==
    /\ []((gw_config_.replay_path # "" /\ gw_run.returned /\ ~gw_run.stopped) =>
              /\ ~gw_running_
              /\ gw_run.passed = RecordsOf(disk.bytes, 0)
              /\ Counted(gw_stats_) = gw_run.base + Len(RecordsOf(disk.bytes, 0)))
    /\ [][IsReplayTurn =>
              IF replay[1].done_
              THEN gw_pc' = "finish"
              ELSE replay'[1].pos > replay[1].pos \/ replay'[1].done_]_vars

\* in replay mode a run() that was entered returns, whether stop() is called
\* or not, when the thread inside it keeps running
ReplayRunReturns ==
    (gw_config_.replay_path # "" /\ gw_pc # "idle") ~> (gw_pc = "idle")

\* the first run() of a gateway on a file of two records, one of them a
\* frame with a wrong CRC, has returned and stop() was never called
C32_Witness ==
    /\ gw_config_.replay_path # ""
    /\ gw_run.returned
    /\ gw_stops = <<>>
    /\ gw_run.base = 0
    /\ Len(gw_run.passed) = 2
    /\ gw_stats_.global.rx_total = 1
    /\ gw_stats_.global.malformed_total = 1
    /\ gw_stats_.global.crc_fail_total = 1


(***************************************************************************)
(* The counts and the batch a FaultInjector::apply call leaves             *)
(***************************************************************************)
\* an apply call has returned
ApplyReturned == fi_pc = "idle" /\ fi_calls > 0

\* the frames of a batch that are not empty
NonEmptyFrames(frames) == Cardinality({i \in 1..Len(frames) : frames[i] # <<>>})

\* what a count of one stage is when the stage's percentage is p and the
\* stage can act on n frames: 0 at p = 0, n at p = 100, at most n otherwise
StageCount(count, p, n) ==
    /\ count \in 0..n
    /\ p = 0 => count = 0
    /\ p = 100 => count = n

\* C33: after every FaultInjector::apply, last_stats() counts only the
\* operations of that apply, whatever the applies before it counted: each
\* count is within what the stage can do to this batch, 0 for a stage that is
\* off and the full number for a stage at 100; the size of the output batch
\* is the size of the input plus duplicated minus dropped; with loss_pct =
\* 100 and no duplication n frames in give 0 frames out and dropped = n.
C33_StatsAreOfThisApply ==
    ApplyReturned =>
        /\ StageCount(last_stats_.corrupted, fi_config_.corrupt_pct,
                      NonEmptyFrames(fi_call.in))
        /\ StageCount(last_stats_.duplicated, fi_config_.duplicate_pct,
                      Len(fi_call.in))
        /\ StageCount(last_stats_.dropped, fi_config_.loss_pct,
                      Len(fi_call.in) + last_stats_.duplicated)
        /\ last_stats_.reordered \in 0..(Len(fi_frames) \div 2)
        /\ fi_config_.reorder_pct = 0 => last_stats_.reordered = 0
        /\ fi_config_.reorder_pct = 100 => last_stats_.reordered = Len(fi_frames) \div 2
        /\ Len(fi_frames) = Len(fi_call.in) + last_stats_.duplicated - last_stats_.dropped
        /\ fi_config_.loss_pct = 100 /\ fi_config_.duplicate_pct = 0
              => fi_frames = <<>> /\ last_stats_.dropped = Len(fi_call.in)

\* a second apply on one frame, duplicated and then lost with its copy, after
\* a first apply that dropped four
C33_Witness ==
    /\ ApplyReturned
    /\ fi_calls = 2
    /\ fi_config_ = FaultConfig(100, 0, 100, 0)
    /\ fi_call.stats_before.dropped = 4
    /\ fi_call.stats_before.duplicated = 2
    /\ fi_call.in = FaultBatch(1)
    /\ last_stats_ = [dropped |-> 2, reordered |-> 0, duplicated |-> 1, corrupted |-> 0]
    /\ fi_frames = <<>>

(***************************************************************************)
(* The reorder stage of FaultInjector::apply                               *)
(***************************************************************************)
\* b is a with some adjacent pairs swapped, no position in two pairs: a
\* permutation of a in which every frame is at most one position away from
\* where it was
RECURSIVE DisjointSwaps(_, _)
DisjointSwaps(a, b) ==
    /\ Len(a) = Len(b)
    /\ \/ a = <<>>
       \/ Head(a) = Head(b) /\ DisjointSwaps(Tail(a), Tail(b))
       \/ /\ Len(a) >= 2
          /\ a[1] = b[2]
          /\ a[2] = b[1]
          /\ DisjointSwaps(Tail(Tail(a)), Tail(Tail(b)))

\* C34: the reorder stage of FaultInjector::apply goes on at i+2 after it
\* swapped the pair (i, i+1), so no frame takes part in two swaps: what the
\* stage leaves is its input with disjoint adjacent pairs swapped, every frame
\* at most one position from where it started, and the swaps counted are at
\* most one for every two frames.
C34_ReorderMovesByOne ==
    ApplyReturned =>
        /\ DisjointSwaps(fi_call.before_reorder, fi_frames)
        /\ 2 * last_stats_.reordered <= Len(fi_frames)

\* four frames, every pair swapped: the stage swapped (0, 1) and went on with
\* (2, 3)
C34_Witness ==
    /\ ApplyReturned
    /\ fi_config_.reorder_pct = 100
    /\ fi_call.before_reorder = <<<<1>>, <<2>>, <<1>>, <<2>>>>
    /\ fi_frames = <<<<2>>, <<1>>, <<2>>, <<1>>>>
    /\ last_stats_.reordered = 2


(***************************************************************************)
(* The sequence numbers of a MeasurementGenerator's frames                 *)
(***************************************************************************)
\* the frames generated so far
Emitted == Len(feed_results) + Len(feed_queue)

\* C35: a MeasurementGenerator numbers the frames it emits 0, 1, 2, ... with
\* one counter for PLOT, TRACK, HEARTBEAT and ENGAGEMENT frames, and a plot
\* that the detection test suppresses takes no number: seq_ is the number of
\* frames emitted, the k-th frame emitted carries k - 1; fed in that order
\* through parse_frame and the SequenceTracker the first frame gives FIRST
\* and every other OK, and the gap, reorder and duplicate totals stay 0.
C35_GeneratedFramesTrackInOrder ==
    /\ mg.seq_ = U32Of(Emitted)
    /\ \A i \in 1..Len(feed_queue) :
           deserialize_header(feed_queue[i]).seq = U32Of(Len(feed_results) + i - 1)
    /\ \A i \in 1..Len(feed_results) :
           /\ feed_results[i].seq = U32Of(i - 1)
           /\ feed_results[i].result = IF i = 1 THEN "FIRST" ELSE "OK"
    /\ feed_stats.global.rx_total = Len(feed_results)
    /\ feed_stats.global.gap_total = 0
    /\ feed_stats.global.reorder_total = 0
    /\ feed_stats.global.duplicate_total = 0

\* four frames fed, one of each type, the last a plot from a generate_plots
\* call on two objects of which one was suppressed
C35_Witness ==
    /\ mg_call = [op |-> "plots", objects |-> 2, frames |-> 1]
    /\ feed_queue = <<>>
    /\ Len(feed_results) = 4
    /\ {feed_results[i].msg_type : i \in 1..4} =
           {MsgType_PLOT, MsgType_TRACK, MsgType_HEARTBEAT, MsgType_ENGAGEMENT}
    /\ feed_results[4] = [result |-> "OK", msg_type |-> MsgType_PLOT, seq |-> U32Of(3)]
    /\ feed_stats.global.rx_total = 4

====
